---- MODULE Spec2Model ----
(***************************************************************************)
(* Model of trace_message_flow (mq_track_flows.py): the iterative,        *)
(* breadth-first resolution of a queue or topic across queue managers.     *)
(*                                                                         *)
(* The program state is the state of one trace_message_flow call: the      *)
(* directory fetched at entry, the pending-hop deque, the visited set, the *)
(* flow path, the hop being processed and its administrative session.      *)
(* What a queue manager answers to the PCF inquiries of a hop is an input  *)
(* of that hop: it is drawn when the hop runs its queries and recorded in  *)
(* `answers`, so that formulas can speak about the definitions met.        *)
(***************************************************************************)
EXTENDS Naturals, Sequences, FiniteSets, TLC

(***************************************************************************)
(* Input domains.                                                          *)
(***************************************************************************)
Managers == {"A", "B", "C"}
StartManagers == {"A"}
RichManagers == {"A"}
QNames == {"Q1", "Q2"}
TNames == {"T1"}
XmitNames == {"XQ"}
StartObjects == {<<"Q1", "queue">>, <<"T1", "topic">>, <<"Q1", "channel">>}

\* Longest subscription table a queue manager answers with.
MaxSubs == 3

(***************************************************************************)
(* Strings returned by PCF are blank-padded; the code strips them.  A raw  *)
(* value is <<text, padding>>; the default of dict.get(k, "") is the       *)
(* unpadded empty string.                                                  *)
(***************************************************************************)
Pad(s) == <<s, "  ">>
NoValue == <<"", "">>
Strip(raw) == raw[1]

\* Python dicts with optional keys are functions on the keys present.
EmptyDict == [k \in {} |-> NoValue]
Put(d, k, v) == (k :> v) @@ d
Get(d, k, default) == IF k \in DOMAIN d THEN d[k] ELSE default

(***************************************************************************)
(* PCF responses.  rc is "OK" or "MQMIError"; attrs is the list of         *)
(* attribute dicts returned.  "none" marks an inquiry the hop did not run. *)
(***************************************************************************)
Found(d) == [rc |-> "OK", attrs |-> <<d>>]
NotFound == [rc |-> "OK", attrs |-> <<>>]
MQMIError == [rc |-> "MQMIError", attrs |-> <<>>]
NoQuery == [rc |-> "none", attrs |-> <<>>]

LocalDefs ==
    {[Q_TYPE |-> "MQQT_LOCAL"]}
    \cup {[Q_TYPE |-> "MQQT_LOCAL", XMIT_Q_NAME |-> Pad(x)] : x \in XmitNames}
AliasDefs ==
    {[Q_TYPE |-> "MQQT_ALIAS", BASE_OBJECT_NAME |-> Pad(b)] :
        b \in QNames \cup TNames \cup {""}}
RemoteDefs ==
    {[Q_TYPE |-> "MQQT_REMOTE", REMOTE_Q_MGR_NAME |-> Pad(m),
      REMOTE_Q_NAME |-> Pad(q), XMIT_Q_NAME |-> Pad(x)] :
        m \in Managers \cup {""}, q \in {"Q1", ""}, x \in XmitNames \cup {""}}
OtherDefs == {[Q_TYPE |-> "MQQT_MODEL"]}
QDefs == LocalDefs \cup AliasDefs \cup RemoteDefs \cup OtherDefs

\* The definitions of the managers reached by later hops: a smaller set.
LeanQDefs ==
    {[Q_TYPE |-> "MQQT_LOCAL"],
     [Q_TYPE |-> "MQQT_LOCAL", XMIT_Q_NAME |-> Pad("XQ")],
     [Q_TYPE |-> "MQQT_ALIAS", BASE_OBJECT_NAME |-> Pad("Q2")],
     [Q_TYPE |-> "MQQT_REMOTE", REMOTE_Q_MGR_NAME |-> Pad(""),
      REMOTE_Q_NAME |-> Pad("Q1"), XMIT_Q_NAME |-> Pad("")],
     [Q_TYPE |-> "MQQT_MODEL"]}
    \cup {[Q_TYPE |-> "MQQT_REMOTE", REMOTE_Q_MGR_NAME |-> Pad(m),
           REMOTE_Q_NAME |-> Pad("Q1"), XMIT_Q_NAME |-> Pad("XQ")] : m \in Managers}

QueueRespsOn(m) ==
    IF m \in RichManagers
    THEN {NotFound, MQMIError} \cup {Found(d) : d \in QDefs}
    ELSE {NotFound} \cup {Found(d) : d \in LeanQDefs}

TopicDefs == {[TOPIC_NAME |-> Pad(t), TOPIC_STRING |-> Pad("news/#")] : t \in TNames}
TopicRespsOn(m) ==
    IF m \in RichManagers
    THEN {NotFound, MQMIError} \cup {Found(d) : d \in TopicDefs}
    ELSE {NotFound} \cup {Found(d) : d \in TopicDefs}

Channel(n, x) ==
    [CHANNEL_NAME |-> Pad(n), CHANNEL_TYPE |-> "MQCHT_SENDER",
     XMIT_Q_NAME |-> Pad(x), CONNECTION_NAME |-> Pad(<<"host", n>>)]
ChannelRespsOn(m) ==
    IF m \in RichManagers
    THEN {MQMIError,
          [rc |-> "OK", attrs |-> <<Channel("CH0", "OTHER")>>],
          [rc |-> "OK", attrs |-> <<Channel("CH0", "OTHER"), Channel("CH1", "XQ")>>],
          [rc |-> "OK", attrs |-> <<Channel("CH2", "XQ"), Channel("CH1", "XQ")>>]}
    ELSE {[rc |-> "OK", attrs |-> <<Channel("CH0", "OTHER"), Channel("CH1", "XQ")>>]}

\* Every subscription table starts with a subscription to another topic (T2);
\* up to MaxSubs subscriptions to T1 follow, each <<destination, manager>>.
SubNames == <<"S1", "S2", "S3", "S4", "S5">>
SubTargets ==
    {<<"Q1", "">>, <<"Q1", "B">>, <<"Q2", "B">>, <<"Q1", "C">>, <<"", "B">>}
Sub(n, t, d) ==
    [SUB_NAME |-> Pad(n), TOPIC_NAME |-> Pad(t),
     DESTINATION |-> Pad(d[1]), DESTINATION_Q_MGR |-> Pad(d[2])]
SubTable(f) ==
    <<Sub("S0", "T2", <<"Q1", "C">>)>> \o [i \in DOMAIN f |-> Sub(SubNames[i], "T1", f[i])]
SubResps ==
    {MQMIError}
    \cup UNION {{[rc |-> "OK", attrs |-> SubTable(f)] : f \in [1..n -> SubTargets]} :
                    n \in 0..MaxSubs}

(***************************************************************************)
(* The PCF helpers.  Each turns an MQMIError into the empty answer.        *)
(***************************************************************************)
query_queue_details(resp) ==
    IF resp.rc = "OK" /\ resp.attrs # <<>> THEN resp.attrs[1] ELSE EmptyDict

query_topic_details(resp) ==
    IF resp.rc = "OK" /\ resp.attrs # <<>> THEN resp.attrs[1] ELSE EmptyDict

query_subscription_details(resp, topic_name) ==
    IF resp.rc # "OK" THEN <<>>
    ELSE SelectSeq(resp.attrs,
                   LAMBDA sub : \/ Strip(Get(sub, "TOPIC_NAME", NoValue)) = topic_name
                                \/ topic_name = "*")

\* Mutant: the channels are not filtered by transmission queue.
query_channel_details_Unfiltered(resp, xmit_queue) ==
    IF resp.rc # "OK" THEN <<>> ELSE resp.attrs

query_channel_details(resp, xmit_queue) ==
    IF resp.rc # "OK" THEN <<>>
    ELSE IF xmit_queue # ""
         THEN SelectSeq(resp.attrs,
                        LAMBDA ch : Strip(Get(ch, "XMIT_Q_NAME", NoValue)) = xmit_queue)
         ELSE resp.attrs

(***************************************************************************)
(* The answers of one manager to the inquiries of one hop: the queue (q),  *)
(* an alias's base as a queue (bq) and as a topic (bt), the channels (ch), *)
(* the topic (t) and the subscriptions (subs).                             *)
(***************************************************************************)
View(q, bq, bt, ch, t, subs) ==
    [q |-> q, bq |-> bq, bt |-> bt, ch |-> ch, t |-> t, subs |-> subs]
NoView == View(NoQuery, NoQuery, NoQuery, NoQuery, NoQuery, NoQuery)

XmitOf(d) == Strip(Get(d, "XMIT_Q_NAME", NoValue))

ChannelViews(m, d) ==
    IF Get(d, "Q_TYPE", "None") \in {"MQQT_LOCAL", "MQQT_REMOTE"} /\ XmitOf(d) # ""
    THEN ChannelRespsOn(m) ELSE {NoQuery}

QueueViews(h) ==
    UNION {
        LET qd == query_queue_details(qr)
            base == Strip(Get(qd, "BASE_OBJECT_NAME", NoValue))
        IN  IF Get(qd, "Q_TYPE", "None") = "MQQT_ALIAS" /\ base # ""
            THEN UNION {
                    IF query_queue_details(bqr) = EmptyDict
                    THEN {View(qr, bqr, btr, NoQuery, NoQuery, NoQuery) :
                             btr \in TopicRespsOn(h[1])}
                    ELSE {View(qr, bqr, NoQuery, chr, NoQuery, NoQuery) :
                             chr \in ChannelViews(h[1], query_queue_details(bqr))}
                    : bqr \in (IF base = h[2] THEN {qr} ELSE QueueRespsOn(h[1]))}
            ELSE {View(qr, NoQuery, NoQuery, chr, NoQuery, NoQuery) :
                     chr \in ChannelViews(h[1], qd)}
        : qr \in QueueRespsOn(h[1])}

TopicViews(h) ==
    UNION {
        IF query_topic_details(tr) = EmptyDict
        THEN {View(NoQuery, NoQuery, NoQuery, NoQuery, tr, NoQuery)}
        ELSE {View(NoQuery, NoQuery, NoQuery, NoQuery, tr, sr) : sr \in SubResps}
        : tr \in TopicRespsOn(h[1])}

\* Per hop, the answers it may meet (tabulated once).
HopTypes == {o[2] : o \in StartObjects} \cup {"queue", "topic"}
ViewTable ==
    [h \in Managers \X (QNames \cup TNames) \X HopTypes |->
        IF h[3] = "queue" THEN QueueViews(h)
        ELSE IF h[3] = "topic" THEN TopicViews(h)
        ELSE {NoView}] @@ <<>>
Views(h) == ViewTable[h]

(***************************************************************************)
(* Entries of the flow path.                                               *)
(***************************************************************************)
LoopNote(m) == [note |-> <<"Loop detected at", m, "stopping trace">>]
ConnectError(m) == [error |-> <<"Failed to connect to", m>>]
ObjInfo(h, details) ==
    [queue_manager |-> h[1], object_name |-> h[2], object_type |-> h[3],
     details |-> details]
\* Mutant: the kind is recorded in details before the not-found test.
NotFoundInfo_WithType(h, what) ==
    Put(ObjInfo(h, Put(EmptyDict, "type", what)), "error",
        <<what, h[2], "not found on", h[1]>>)

NotFoundInfo(h, what) ==
    Put(ObjInfo(h, EmptyDict), "error", <<what, h[2], "not found on", h[1]>>)

ChannelInfo(ch) ==
    [name |-> Strip(ch.CHANNEL_NAME), type |-> ch.CHANNEL_TYPE,
     connection_name |-> Strip(ch.CONNECTION_NAME)]

\* The transmission queue of definition d and its first channel.
WithChannel(details, d, v) ==
    LET xmit_queue == XmitOf(d) IN
    IF xmit_queue # ""
    THEN LET channels == query_channel_details(v.ch, xmit_queue)
             d1 == Put(details, "transmission_queue", xmit_queue)
         IN  IF channels # <<>>
             THEN Put(d1, "channel", ChannelInfo(channels[1]))
             ELSE d1
    ELSE details

\* Mutant: the hop's manager and queue name swapped.
RemoteHops_Swapped(remote_qmgr, remote_queue) ==
    IF remote_qmgr # "" /\ remote_queue # ""
    THEN <<<<remote_queue, remote_qmgr, "queue">>>>
    ELSE <<>>

\* The follow-up hop of a remote queue: only when both names are non-blank.
RemoteHops(remote_qmgr, remote_queue) ==
    IF remote_qmgr # "" /\ remote_queue # ""
    THEN <<<<remote_qmgr, remote_queue, "queue">>>>
    ELSE <<>>

\* A remote definition d: its fields, its channel, its next hop.
ResolveRemote(details, d, v) ==
    LET remote_qmgr == Strip(Get(d, "REMOTE_Q_MGR_NAME", NoValue))
        remote_queue == Strip(Get(d, "REMOTE_Q_NAME", NoValue))
        d1 == Put(Put(details, "remote_queue_manager", remote_qmgr),
                  "remote_queue", remote_queue)
        d2 == WithChannel(d1, d, v)
        hops == RemoteHops(remote_qmgr, remote_queue)
    IN  [details |-> IF hops # <<>>
                     THEN Put(d2, "next_hop", <<remote_queue, "on", remote_qmgr>>)
                     ELSE d2,
         hops |-> hops]

\* Mutant: the base queue is resolved in the alias's node and not enqueued.
BaseQueueHop_None(h, base_object_name) == <<>>

\* hop_queue.append((current_qmgr_name, base_object_name, "queue"))
BaseQueueHop(h, base_object_name) == <<<<h[1], base_object_name, "queue">>>>

\* Mutant: the base found as a topic is enqueued as a queue.
BaseTopicHop_AsQueue(h, base_object_name) == <<<<h[1], base_object_name, "queue">>>>

\* hop_queue.append((current_qmgr_name, base_object_name, "topic"))
BaseTopicHop(h, base_object_name) == <<<<h[1], base_object_name, "topic">>>>

\* An alias queue: its base object as a queue, else as a topic.
ResolveAlias(h, queue_details, v) ==
    LET base_object_name == Strip(Get(queue_details, "BASE_OBJECT_NAME", NoValue))
        d0 == Put(Put(EmptyDict, "type", "Alias"), "base_object_name", base_object_name)
        base_queue_details == query_queue_details(v.bq)
        base_queue_type == Get(base_queue_details, "Q_TYPE", "None")
        d1 == Put(d0, "base_object_type", "queue")
        base_hop == BaseQueueHop(h, base_object_name)
    IN  IF base_object_name = "" THEN [details |-> d0, hops |-> <<>>]
        ELSE IF base_queue_details # EmptyDict
        THEN IF base_queue_type = "MQQT_LOCAL"
             THEN [details |-> WithChannel(Put(d1, "base_queue_type", "Local"),
                                           base_queue_details, v),
                   hops |-> base_hop]
             ELSE IF base_queue_type = "MQQT_REMOTE"
             THEN LET r == ResolveRemote(Put(d1, "base_queue_type", "Remote"),
                                         base_queue_details, v)
                  IN  [details |-> r.details, hops |-> r.hops \o base_hop]
             ELSE [details |-> d1, hops |-> base_hop]
        ELSE IF query_topic_details(v.bt) # EmptyDict
        THEN [details |-> Put(d0, "base_object_type", "topic"),
              hops |-> BaseTopicHop(h, base_object_name)]
        ELSE [details |-> d0, hops |-> <<>>]

\* Mutant: the hop is appended without the `if dest_queue` test.
SubHop_Unguarded(sub, current_qmgr_name) ==
    <<<<IF Strip(sub.DESTINATION_Q_MGR) # "" THEN Strip(sub.DESTINATION_Q_MGR)
        ELSE current_qmgr_name,
        Strip(sub.DESTINATION), "queue">>>>

\* The hop of one subscription: none when its destination is blank.
SubHop(sub, current_qmgr_name) ==
    LET dest_queue == Strip(sub.DESTINATION)
        stripped == Strip(sub.DESTINATION_Q_MGR)
        dest_qmgr == IF stripped # "" THEN stripped ELSE current_qmgr_name
    IN  IF dest_queue # "" THEN <<<<dest_qmgr, dest_queue, "queue">>>> ELSE <<>>

\* Mutant: the loop over the subscriptions stops after the first one.
SubHops_FirstOnly(subscriptions, current_qmgr_name) ==
    IF subscriptions = <<>> THEN <<>>
    ELSE SubHop(Head(subscriptions), current_qmgr_name)

RECURSIVE SubHops(_, _)
SubHops(subscriptions, current_qmgr_name) ==
    IF subscriptions = <<>> THEN <<>>
    ELSE SubHop(Head(subscriptions), current_qmgr_name)
         \o SubHops(Tail(subscriptions), current_qmgr_name)

SubInfo(sub, current_qmgr_name) ==
    [name |-> Strip(sub.SUB_NAME), destination |-> Strip(sub.DESTINATION),
     destination_queue_manager |->
        IF Strip(sub.DESTINATION_Q_MGR) # "" THEN Strip(sub.DESTINATION_Q_MGR)
        ELSE current_qmgr_name]

ResolveTopic(h, topic_details, v) ==
    LET d0 == Put(Put(EmptyDict, "type", "Topic"), "topic_string",
                  Strip(Get(topic_details, "TOPIC_STRING", NoValue)))
        subscriptions == query_subscription_details(v.subs, h[2])
        hops == SubHops(subscriptions, h[1])
        d1 == Put(d0, "subscriptions",
                  [i \in DOMAIN subscriptions |-> SubInfo(subscriptions[i], h[1])])
    IN  IF subscriptions = <<>> THEN [details |-> d0, hops |-> <<>>]
        ELSE [details |-> IF hops # <<>>
                          THEN Put(d1, "next_hops",
                                   [i \in DOMAIN hops |-> <<hops[i][2], "on", hops[i][1]>>])
                          ELSE d1,
              hops |-> hops]

(***************************************************************************)
(* One hop on an open session: the branch taken, the entry appended and    *)
(* the hops enqueued.                                                      *)
(***************************************************************************)
Outcome(branch, info, hops) == [branch |-> branch, info |-> info, hops |-> hops]

ResolveQueue(h, v) ==
    LET queue_details == query_queue_details(v.q)
        queue_type == Get(queue_details, "Q_TYPE", "None")
    IN  IF queue_details = EmptyDict
        THEN Outcome("queue_not_found", NotFoundInfo(h, "Queue"), <<>>)
        ELSE IF queue_type = "MQQT_ALIAS"
        THEN LET r == ResolveAlias(h, queue_details, v)
             IN  Outcome("alias", ObjInfo(h, r.details), r.hops)
        ELSE IF queue_type = "MQQT_LOCAL"
        THEN Outcome("local",
                     ObjInfo(h, WithChannel(Put(EmptyDict, "type", "Local"),
                                            queue_details, v)),
                     <<>>)
        ELSE IF queue_type = "MQQT_REMOTE"
        THEN LET r == ResolveRemote(Put(EmptyDict, "type", "Remote"), queue_details, v)
             IN  Outcome("remote", ObjInfo(h, r.details), r.hops)
        ELSE Outcome("unsupported",
                     ObjInfo(h, Put(EmptyDict, "type", "Unsupported queue type")), <<>>)

Resolve(h, v) ==
    IF h[3] = "queue" THEN ResolveQueue(h, v)
    ELSE IF h[3] = "topic"
    THEN LET topic_details == query_topic_details(v.t)
         IN  IF topic_details = EmptyDict
             THEN Outcome("topic_not_found", NotFoundInfo(h, "Topic"), <<>>)
             ELSE LET r == ResolveTopic(h, topic_details, v)
                  IN  Outcome("topic", ObjInfo(h, r.details), r.hops)
    ELSE Outcome("other_type", ObjInfo(h, EmptyDict), <<>>)

VARIABLES
    qmgr_details,   \* manager names the directory holds (fetch_qmgr_details)
    flow_details,   \* the result under construction
    hop_queue,      \* deque of pending hops <<manager, object, type>>
    visited,        \* set of manager names
    pc,             \* "loop" | "query" | "done"
    cur,            \* the hop popped by the current iteration
    qmgr,           \* the session of the current iteration, or "None"
    sessions,       \* managers with an open administrative session
    answers,        \* per manager, what it answered to the hop that queried it
    connects,       \* per manager, connect_to_qmgr calls
    queried,        \* per manager, hops that ran inquiries on it
    popped,         \* the hops popped so far, in order
    spawned,        \* per finished iteration, the hops it enqueued
    \* mq_audit_usage.py
    queue_audit,    \* the queue_audit table: rows by (manager, queue, day)
    audit_day,      \* the day datetime.now() falls on
    queue_stats,    \* what parse_qstatus_output returned for the current run
    data,           \* the rows upsert_to_db built in its last run
    audit_pc,       \* "off" | "idle" | "parsed"
    committed,      \* conn.commit() ran in the last process_queue_manager call
    future_result,  \* what the call returned: <<qm, count, error>>, or <<>>
    \* mq_audit_usage.py, main: the thread pool
    environ,        \* os.environ['MQSERVER'] of the process, or Unset
    worker_pc,      \* per queue manager, where its worker stands
    launched_env,   \* per queue manager, the MQSERVER its runmqsc inherited
    \* lib/python/PostGresDB.py: one DB object and its server
    db_conn,        \* self.__conn: a connection handle, or None
    db_cursor,      \* self.__cursor: a cursor handle, or None
    RowCount,       \* self.RowCount: <<>> while the attribute is not set
    connections,    \* the connections open on the server
    db_pc,          \* "off" | "idle" | "attempt" | "fetch"
    db_call,        \* the call in progress, or the last one finished
    db_result,      \* "none" | "running" | "returned" | "raised"
    attempts_left,  \* iterations range(max_retries) still holds
    executions,     \* cursor.execute calls of db_call
    commits,        \* conn.commit calls of db_call
    rollbacks,      \* conn.rollback calls of db_call
    \* Chatbot_Frontend.py: one chat session
    user_session,   \* cl.user_session: token, expiry, llm, last activity
    now,            \* datetime.now() / time.time(), in minutes
    chat_event,     \* the last event handled, with the session it met
    sent,           \* the cl.Message contents the last handler sent
    invoked         \* what the last handler ran: the LLM, the tools

trace_vars == <<qmgr_details, flow_details, hop_queue, visited, pc, cur, qmgr,
                sessions, answers, connects, queried, popped, spawned>>
audit_vars == <<queue_audit, audit_day, queue_stats, data, audit_pc,
                committed, future_result>>
worker_vars == <<environ, worker_pc, launched_env>>
db_vars == <<db_conn, db_cursor, RowCount, connections, db_pc, db_call,
             db_result, attempts_left, executions, commits, rollbacks>>
chat_vars == <<user_session, now, chat_event, sent, invoked>>
vars == <<trace_vars, audit_vars, worker_vars, db_vars, chat_vars>>

flow_path == flow_details.flow_path
NoHop == <<"", "", "">>

\* The audit job is not part of a trace_message_flow call.
AuditOff ==
    /\ queue_audit = <<>>
    /\ audit_day = 1
    /\ queue_stats = <<>>
    /\ data = <<>>
    /\ audit_pc = "off"
    /\ committed = FALSE
    /\ future_result = <<>>

\* No thread pool runs in a trace_message_flow call.
WorkersOff ==
    /\ environ = <<>>
    /\ worker_pc = <<>>
    /\ launched_env = <<>>

\* No DB object of PostGresDB.py exists.
DBOff ==
    /\ db_conn = "None"
    /\ db_cursor = "None"
    /\ RowCount = <<>>
    /\ connections = {}
    /\ db_pc = "off"
    /\ db_call = <<>>
    /\ db_result = "none"
    /\ attempts_left = 0
    /\ executions = 0
    /\ commits = 0
    /\ rollbacks = 0

\* No chat session is open.
ChatOff ==
    /\ user_session = <<>>
    /\ now = 0
    /\ chat_event = <<>>
    /\ sent = <<>>
    /\ invoked = <<>>

Init ==
    /\ qmgr_details \in SUBSET Managers
    /\ \E m \in StartManagers, o \in StartObjects :
          /\ flow_details = [starting_queue_manager |-> m, object_name |-> o[1],
                             object_type |-> o[2], flow_path |-> <<>>]
          /\ hop_queue = <<<<m, o[1], o[2]>>>>
    /\ visited = {}
    /\ pc = "loop"
    /\ cur = NoHop
    /\ qmgr = "None"
    /\ sessions = {}
    /\ answers = [m \in Managers |-> NoQuery]
    /\ connects = [m \in Managers |-> 0]
    /\ queried = [m \in Managers |-> 0]
    /\ popped = <<>>
    /\ spawned = <<>>
    /\ AuditOff
    /\ WorkersOff
    /\ DBOff
    /\ ChatOff

(***************************************************************************)
(* The loop head: the while test, the pop, the visited check and the       *)
(* connection attempt.                                                     *)
(***************************************************************************)
\* Mutant: visited.add(current_qmgr_name) forgotten.
MarkVisited_Forgotten(v, m) == v

MarkVisited(v, m) == v \cup {m}

\* Mutant: `return flow_details` in place of `continue` after a failed hop.
ContinueLoop_Returns == "done"

\* `continue` after a failed hop: back to the while test.
ContinueLoop == "loop"

\* qmgr.disconnect() at the end of a hop, and on its not-found exits.
Disconnect(s, q) == s \ {q}
\* Mutant: the not-found exits `continue` without qmgr.disconnect().
DisconnectOnError_Leaks(s, q) == s

DisconnectOnError(s, q) == s \ {q}

\* Mutant: the `continue` of a not-found exit is missing, and the hop falls
\* through to the append that ends the loop body.
NotFoundEntries_FallThrough(info) == <<info, info>>

\* The entries a not-found exit appends before its `continue`.
NotFoundEntries(info) == <<info>>

Pop ==
    /\ pc = "loop"
    /\ hop_queue # <<>>
    /\ cur' = Head(hop_queue)
    /\ popped' = Append(popped, Head(hop_queue))

\* Mutant: entries are inserted at the head of the flow path.
Extend_flow_path_AtHead(entries) ==
    flow_details' = [flow_details EXCEPT !.flow_path = entries \o @]

Extend_flow_path(entries) ==
    flow_details' = [flow_details EXCEPT !.flow_path = @ \o entries]

\* Mutant: `while True:`; popleft() on the empty deque raises IndexError and
\* the call never returns the flow result.
Return_Raises ==
    /\ pc = "loop"
    /\ hop_queue = <<>>
    /\ pc' = "raised"
    /\ UNCHANGED <<qmgr_details, flow_details, hop_queue, visited, cur, qmgr,
                   sessions, answers, connects, queried, popped, spawned>>
    /\ UNCHANGED <<audit_vars, worker_vars, db_vars, chat_vars>>

\* while hop_queue: false; return flow_details
Return ==
    /\ pc = "loop"
    /\ hop_queue = <<>>
    /\ pc' = "done"
    /\ UNCHANGED <<qmgr_details, flow_details, hop_queue, visited, cur, qmgr,
                   sessions, answers, connects, queried, popped, spawned>>
    /\ UNCHANGED <<audit_vars, worker_vars, db_vars, chat_vars>>

\* The popped manager is in visited: a note, and on to the next hop.
LoopDetected ==
    /\ Pop
    /\ Head(hop_queue)[1] \in visited
    /\ Extend_flow_path(<<LoopNote(Head(hop_queue)[1])>>)
    /\ hop_queue' = Tail(hop_queue)
    /\ spawned' = Append(spawned, <<>>)
    /\ pc' = ContinueLoop
    /\ UNCHANGED <<qmgr_details, visited, qmgr, sessions, answers, connects, queried>>
    /\ UNCHANGED <<audit_vars, worker_vars, db_vars, chat_vars>>

\* connect_to_qmgr returns None: the manager is not in the directory, or
\* the connection raises MQMIError.
ConnectFailed ==
    /\ Pop
    /\ Head(hop_queue)[1] \notin visited
    /\ visited' = MarkVisited(visited, Head(hop_queue)[1])
    /\ connects' = [connects EXCEPT ![Head(hop_queue)[1]] = @ + 1]
    /\ Extend_flow_path(<<ConnectError(Head(hop_queue)[1])>>)
    /\ hop_queue' = Tail(hop_queue)
    /\ spawned' = Append(spawned, <<>>)
    /\ pc' = ContinueLoop
    /\ UNCHANGED <<qmgr_details, qmgr, sessions, answers, queried>>
    /\ UNCHANGED <<audit_vars, worker_vars, db_vars, chat_vars>>

\* Mutant: connect_to_qmgr without its directory test.
InDirectory_Unchecked(qmgr_name, directory) == TRUE

\* if qmgr_name not in qmgr_details: return None
InDirectory(qmgr_name, directory) == qmgr_name \in directory

\* connect_to_qmgr returns a session.
Connected ==
    /\ Pop
    /\ Head(hop_queue)[1] \notin visited
    /\ InDirectory(Head(hop_queue)[1], qmgr_details)
    /\ visited' = MarkVisited(visited, Head(hop_queue)[1])
    /\ connects' = [connects EXCEPT ![Head(hop_queue)[1]] = @ + 1]
    /\ qmgr' = Head(hop_queue)[1]
    /\ sessions' = sessions \cup {Head(hop_queue)[1]}
    /\ hop_queue' = Tail(hop_queue)
    /\ pc' = "query"
    /\ UNCHANGED <<qmgr_details, flow_details, answers, queried, spawned>>
    /\ UNCHANGED <<audit_vars, worker_vars, db_vars, chat_vars>>

(***************************************************************************)
(* The body of the hop on its session: the inquiries, the entry, the       *)
(* follow-up hops and the disconnect.                                      *)
(***************************************************************************)
NotFoundBranches == {"queue_not_found", "topic_not_found"}

\* Mutant: a hop equal to one already pending is not appended again.
Enqueue_Dedup(q, hops) ==
    q \o SelectSeq(hops, LAMBDA h : \A i \in DOMAIN q : q[i] # h)

\* Mutant: discovered hops are put at the front of the deque (appendleft).
Enqueue_AtFront(q, hops) == hops \o q

\* hop_queue.append(...) for each discovered hop, in order.
Enqueue(q, hops) == q \o hops

Process(branch) ==
    /\ pc = "query"
    /\ \E v \in Views(cur) :
          LET r == Resolve(cur, v) IN
          /\ answers' = [answers EXCEPT ![cur[1]] = v]
          /\ r.branch = branch
          /\ queried' = [queried EXCEPT ![cur[1]] = @ + 1]
          /\ Extend_flow_path(IF branch \in NotFoundBranches
                              THEN NotFoundEntries(r.info) ELSE <<r.info>>)
          /\ hop_queue' = Enqueue(hop_queue, r.hops)
          /\ spawned' = Append(spawned, r.hops)
    /\ sessions' = IF branch \in NotFoundBranches
                   THEN DisconnectOnError(sessions, qmgr)
                   ELSE Disconnect(sessions, qmgr)
    /\ qmgr' = "None"
    /\ pc' = IF branch \in NotFoundBranches THEN ContinueLoop ELSE "loop"
    /\ UNCHANGED <<qmgr_details, visited, cur, connects, popped>>
    /\ UNCHANGED <<audit_vars, worker_vars, db_vars, chat_vars>>

QueueNotFound == cur[3] = "queue" /\ Process("queue_not_found")
QueueAlias == cur[3] = "queue" /\ Process("alias")
QueueLocal == cur[3] = "queue" /\ Process("local")
QueueRemote == cur[3] = "queue" /\ Process("remote")
QueueUnsupported == cur[3] = "queue" /\ Process("unsupported")
TopicNotFound == cur[3] = "topic" /\ Process("topic_not_found")
Topic == cur[3] = "topic" /\ Process("topic")
OtherType == cur[3] \notin {"queue", "topic"} /\ Process("other_type")

Next ==
    \/ Return
    \/ LoopDetected
    \/ ConnectFailed
    \/ Connected
    \/ QueueNotFound
    \/ QueueAlias
    \/ QueueLocal
    \/ QueueRemote
    \/ QueueUnsupported
    \/ TopicNotFound
    \/ Topic
    \/ OtherType

Spec == Init /\ [][Next]_vars

\* The call runs to completion once started: nothing suspends the loop.
FairSpec == Spec /\ WF_vars(Next)

(***************************************************************************)
(* Reading the flow path.                                                  *)
(***************************************************************************)
IsLoopNote(e) == "note" \in DOMAIN e
IsConnectError(e) == DOMAIN e = {"error"}
IsNode(e) == "queue_manager" \in DOMAIN e
HasError(e) == "error" \in DOMAIN e
IsNotFound(e) == IsNode(e) /\ HasError(e)
IsErrorFreeNode(e) == IsNode(e) /\ ~HasError(e)
NodeOf(e, h) ==
    /\ IsNode(e)
    /\ e.queue_manager = h[1] /\ e.object_name = h[2] /\ e.object_type = h[3]

Count(seq, P(_)) == Cardinality({i \in DOMAIN seq : P(seq[i])})

RECURSIVE SumLen(_)
SumLen(seqs) == IF seqs = <<>> THEN 0 ELSE Len(Head(seqs)) + SumLen(Tail(seqs))

\* Hops ever put in hop_queue, the seed included.
Enqueued == 1 + SumLen(spawned)

\* popped[i] is the first hop of the traversal naming its manager.
FirstNaming(i) == \A j \in 1..(i - 1) : popped[j][1] # popped[i][1]

(***************************************************************************)
(* C1.  trace_message_flow terminates: for every directory, every set of   *)
(* answers (cycles across managers included) and every starting triple,    *)
(* the pending-hop queue becomes empty and the flow result is returned.    *)
(***************************************************************************)
C1_Terminates == <>(pc = "done" /\ hop_queue = <<>>)

\* A traversal that went round a cycle over all three managers and returned.
C1_Witness ==
    /\ pc = "done"
    /\ visited = Managers
    /\ \A m \in Managers : queried[m] = 1
    /\ IsLoopNote(flow_path[Len(flow_path)])

(***************************************************************************)
(* C2.  In one traversal each manager is connected to and queried by at    *)
(* most one hop: the first hop naming it marks it visited, and every later *)
(* hop naming it (whatever the object, and whether the first hop succeeded *)
(* or failed) appends a loop-detected entry, opens no session, runs no     *)
(* query and enqueues no hop.                                              *)
(***************************************************************************)
C2_State ==
    /\ visited = {popped[i][1] : i \in DOMAIN popped}
    /\ \A m \in Managers : connects[m] <= 1 /\ queried[m] <= connects[m]
    /\ \A i \in DOMAIN popped :
          ~FirstNaming(i) =>
              /\ i <= Len(flow_path) /\ flow_path[i] = LoopNote(popped[i][1])
              /\ i <= Len(spawned) /\ spawned[i] = <<>>

C2_LaterHop ==
    (pc = "loop" /\ hop_queue # <<>> /\ Head(hop_queue)[1] \in visited)
        => /\ flow_path' = Append(flow_path, LoopNote(Head(hop_queue)[1]))
           /\ hop_queue' = Tail(hop_queue)
           /\ sessions' = sessions /\ connects' = connects /\ queried' = queried
           /\ answers' = answers /\ pc' = "loop"

C2_OneHopPerManager == [](C2_State) /\ [][C2_LaterHop]_vars

\* A manager whose first hop failed to connect is named again by a later hop.
C2_Witness ==
    \E i, j \in DOMAIN flow_path :
        /\ i < j
        /\ flow_path[i] = ConnectError(popped[j][1])
        /\ flow_path[j] = LoopNote(popped[j][1])
        /\ popped[i][2] # popped[j][2]

(***************************************************************************)
(* C3.  No per-hop failure aborts the traversal: after a directory miss, a *)
(* connection failure or an object-not-found result the loop goes on, the  *)
(* call returns only with the pending queue empty and every enqueued hop   *)
(* popped, and the failure is an entry of the flow path.                   *)
(***************************************************************************)
C3_FailuresDoNotAbort ==
    /\ pc = "done" => /\ hop_queue = <<>>
                      /\ Len(popped) = Enqueued
                      /\ Len(flow_path) = Len(popped)
    /\ \A i \in DOMAIN flow_path :
          /\ (FirstNaming(i) /\ popped[i][1] \notin qmgr_details)
                => flow_path[i] = ConnectError(popped[i][1])
          /\ (FirstNaming(i) /\ queried[popped[i][1]] = 0)
                => flow_path[i] = ConnectError(popped[i][1])
          /\ LET v == answers[popped[i][1]] IN
             (FirstNaming(i) /\ queried[popped[i][1]] = 1
                /\ \/ popped[i][3] = "queue" /\ query_queue_details(v.q) = EmptyDict
                   \/ popped[i][3] = "topic" /\ query_topic_details(v.t) = EmptyDict)
                => (NodeOf(flow_path[i], popped[i]) /\ HasError(flow_path[i]))

\* A returned traversal with a directory miss, then an object not found,
\* then a further hop processed.
C3_Witness ==
    /\ pc = "done"
    /\ \E i, j, k \in DOMAIN flow_path :
          /\ i < j /\ j < k
          /\ IsConnectError(flow_path[i]) /\ popped[i][1] \notin qmgr_details
          /\ IsNotFound(flow_path[j])

(***************************************************************************)
(* C4.  Every session opened for a hop is disconnected before the next hop *)
(* is popped, on every exit of the hop (object not found, unsupported      *)
(* type, normal completion): at most one session is open at any moment and *)
(* none when the call returns.                                             *)
(***************************************************************************)
C4_OneSession ==
    /\ Cardinality(sessions) <= 1
    /\ pc \in {"loop", "done"} => sessions = {}
    /\ pc = "query" => sessions = {qmgr}

\* Three sessions were opened and closed in turn; one hop left by a not-found
\* exit, one by the unsupported-type exit.
C4_Witness ==
    /\ pc = "done"
    /\ \A m \in Managers : queried[m] = 1
    /\ \E i, j \in DOMAIN flow_path :
          /\ IsNotFound(flow_path[i])
          /\ IsNode(flow_path[j]) /\ ~HasError(flow_path[j])
          /\ flow_path[j].details = [type |-> "Unsupported queue type"]

(***************************************************************************)
(* What the hop at position i met.                                         *)
(***************************************************************************)
\* Hop i opened a session and ran its inquiries (answers holds its answers).
Queried(i) == FirstNaming(i) /\ queried[popped[i][1]] = 1 /\ i <= Len(spawned)
QueueDefAt(i) == query_queue_details(answers[popped[i][1]].q)
BaseDefAt(i) == query_queue_details(answers[popped[i][1]].bq)
QueueHop(i, qtype) ==
    Queried(i) /\ popped[i][3] = "queue" /\ Get(QueueDefAt(i), "Q_TYPE", "None") = qtype
RemoteTo(d, m) ==
    /\ Get(d, "Q_TYPE", "None") = "MQQT_REMOTE"
    /\ Strip(Get(d, "REMOTE_Q_MGR_NAME", NoValue)) = m
    /\ Strip(Get(d, "REMOTE_Q_NAME", NoValue)) # ""

(***************************************************************************)
(* C5.  Cycle containment.  The starting queue on A is an alias whose base *)
(* is a remote queue pointing to a queue on B, and that queue on B is a    *)
(* remote queue pointing back to A.                                        *)
(***************************************************************************)
C5_Cycle ==
    /\ pc = "done"
    /\ popped[1][1] = "A"
    /\ QueueHop(1, "MQQT_ALIAS") /\ RemoteTo(BaseDefAt(1), "B")
    /\ Len(popped) >= 2 /\ popped[2][1] = "B"
    /\ QueueHop(2, "MQQT_REMOTE") /\ RemoteTo(QueueDefAt(2), "A")

\* C5 as claimed: one error-free node for A, one for B, one trailing
\* loop-detected entry for A.
C5_AsClaimed ==
    C5_Cycle =>
        /\ Len(flow_path) = 3
        /\ NodeOf(flow_path[1], popped[1]) /\ ~HasError(flow_path[1])
        /\ NodeOf(flow_path[2], popped[2]) /\ ~HasError(flow_path[2])
        /\ flow_path[3] = LoopNote("A")

\* C5 amended: one error-free node for A, one for B, and two trailing
\* loop-detected entries for A: one for the alias's base-queue hop, one for
\* B's hop back to A.
C5_CycleContained ==
    C5_Cycle =>
        /\ Len(flow_path) = 4
        /\ NodeOf(flow_path[1], popped[1]) /\ ~HasError(flow_path[1])
        /\ NodeOf(flow_path[2], popped[2]) /\ ~HasError(flow_path[2])
        /\ flow_path[3] = LoopNote("A") /\ popped[3][2] = flow_path[1].details.base_object_name
        /\ flow_path[4] = LoopNote("A") /\ popped[4][2] = flow_path[2].details.remote_queue

C5_Witness == C5_Cycle

(***************************************************************************)
(* C6.  Step bound on the loop iterations of one call.                     *)
(***************************************************************************)
IsFailure(e) == IsConnectError(e) \/ IsNotFound(e)
Failing == Count(flow_path, IsFailure)
Loops == Count(flow_path, IsLoopNote)

\* C6 as claimed: the number of loop iterations is at most the number of
\* managers in the directory plus the hops failing through a directory miss,
\* a connection failure or an object not found.
C6_AsClaimed == Len(popped) <= Cardinality(qmgr_details) + Failing

\* C6 amended: the number of loop iterations is at most the number of
\* managers in the directory, plus the hops failing through a directory miss,
\* a connection failure or an object not found, plus the hops ending in a
\* loop-detected entry.
C6_StepBound == Len(popped) <= Cardinality(qmgr_details) + Failing + Loops

\* The amended bound is met with equality by a traversal with loop entries.
C6_Witness ==
    /\ pc = "done"
    /\ Loops >= 2 /\ Failing >= 1
    /\ Len(popped) = Cardinality(qmgr_details) + Failing + Loops

(***************************************************************************)
(* C7.  A call whose starting object type is neither "queue" nor "topic"   *)
(* fails before any traversal: no manager is connected to and no entry is  *)
(* appended to the flow path.                                              *)
(***************************************************************************)
C7_FailFast ==
    flow_details.object_type \notin {"queue", "topic"} =>
        /\ \A m \in Managers : connects[m] = 0
        /\ sessions = {}
        /\ flow_path = <<>>

(***************************************************************************)
(* C8.  Topic fan-out: the starting topic has three subscriptions with     *)
(* three distinct (manager, queue) destinations.                           *)
(***************************************************************************)
SubsAt(i) == query_subscription_details(answers[popped[i][1]].subs, popped[i][2])
\* The destination of a subscription of a topic on manager m.
Destination(sub, m) ==
    <<IF Strip(sub.DESTINATION_Q_MGR) = "" THEN m ELSE Strip(sub.DESTINATION_Q_MGR),
      Strip(sub.DESTINATION), "queue">>

C8_FanOut ==
    /\ Len(spawned) >= 1
    /\ Queried(1) /\ popped[1][3] = "topic"
    /\ query_topic_details(answers[popped[1][1]].t) # EmptyDict
    /\ Len(SubsAt(1)) = 3
    /\ \A i \in 1..3 : Strip(SubsAt(1)[i].DESTINATION) # ""
    /\ Cardinality({Destination(SubsAt(1)[i], popped[1][1]) : i \in 1..3}) = 3

C8_TopicNode ==
    /\ spawned[1] = [i \in 1..3 |-> Destination(SubsAt(1)[i], popped[1][1])]
    /\ NodeOf(flow_path[1], popped[1]) /\ ~HasError(flow_path[1])
    /\ flow_path[1].details.subscriptions =
          [i \in 1..3 |->
              [name |-> Strip(SubsAt(1)[i].SUB_NAME),
               destination |-> Strip(SubsAt(1)[i].DESTINATION),
               destination_queue_manager |->
                   Destination(SubsAt(1)[i], popped[1][1])[1]]]

\* C8 as claimed: each of the three hops appears as its own node, or as an
\* error entry.
C8_AsClaimed ==
    C8_FanOut =>
        /\ C8_TopicNode
        /\ pc = "done" =>
              \A i \in 1..3 :
                  /\ popped[i + 1] = spawned[1][i]
                  /\ \/ NodeOf(flow_path[i + 1], popped[i + 1])
                     \/ flow_path[i + 1] = ConnectError(popped[i + 1][1])

\* C8 amended: each of the three hops yields its own flow-path entry, in
\* order: a node or an error entry when it is the first hop naming its
\* manager, and a loop-detected entry when its manager is the topic's own
\* manager or the manager of an earlier one of the three.
C8_TopicFanOut ==
    C8_FanOut =>
        /\ C8_TopicNode
        /\ pc = "done" =>
              \A i \in 1..3 :
                  /\ popped[i + 1] = spawned[1][i]
                  /\ IF \E j \in 1..i : popped[j][1] = popped[i + 1][1]
                     THEN flow_path[i + 1] = LoopNote(popped[i + 1][1])
                     ELSE \/ NodeOf(flow_path[i + 1], popped[i + 1])
                          \/ flow_path[i + 1] = ConnectError(popped[i + 1][1])

\* A fan-out to own manager (blank destination manager), to B and to C,
\* with B unreachable and C queried.
C8_Witness ==
    /\ C8_FanOut /\ pc = "done"
    /\ \E i, j, k \in 2..4 :
          /\ IsLoopNote(flow_path[i])
          /\ IsConnectError(flow_path[j])
          /\ IsNode(flow_path[k])

(***************************************************************************)
(* C9.  Missing object: a queue hop whose queue does not exist on a        *)
(* reachable manager.                                                      *)
(***************************************************************************)
MissingQueueHop(i) ==
    Queried(i) /\ popped[i][3] = "queue" /\ QueueDefAt(i) = EmptyDict

\* Hops put in hop_queue before hop i was popped, the seed included.
EnqueuedBefore(i) == 1 + SumLen(SubSeq(spawned, 1, i - 1))
\* The hops pending while hop i was processed, among those processed so far.
PendingAt(i) == {j \in DOMAIN flow_path : i < j /\ j <= EnqueuedBefore(i)}
\* The entry of a hop is decided by the hop, by the answers of its manager
\* and by whether its manager is in visited when it is popped.  Had hop i not
\* been in the queue, hop j would have found its manager in visited exactly
\* when another earlier hop named it.
LoopWithout(i, j) == \E k \in 1..(j - 1) : k # i /\ popped[k][1] = popped[j][1]

C9_OneErrorNode(i) ==
    /\ NodeOf(flow_path[i], popped[i]) /\ HasError(flow_path[i])
    /\ flow_path[i].details = EmptyDict
    /\ spawned[i] = <<>>
    /\ pc = "loop" => Len(flow_path) = Len(popped)

\* C9 as claimed: no other pending hop is processed differently.
C9_AsClaimed ==
    \A i \in DOMAIN spawned :
        MissingQueueHop(i) =>
            /\ C9_OneErrorNode(i)
            /\ \A j \in PendingAt(i) : IsLoopNote(flow_path[j]) <=> LoopWithout(i, j)

\* C9 amended: it appends exactly one error node, enqueues no hop, and does
\* not change how a pending hop naming another manager is processed; a
\* pending hop naming the same manager gets a loop-detected entry.
C9_MissingObject ==
    \A i \in DOMAIN spawned :
        MissingQueueHop(i) =>
            /\ C9_OneErrorNode(i)
            /\ \A j \in PendingAt(i) :
                  IF popped[j][1] = popped[i][1]
                  THEN flow_path[j] = LoopNote(popped[j][1])
                  ELSE IsLoopNote(flow_path[j]) <=> LoopWithout(i, j)

\* A missing queue with two hops pending: one to its own manager, one to a
\* manager that is then queried.
C9_Witness ==
    /\ pc = "done"
    /\ \E i \in DOMAIN spawned :
          /\ MissingQueueHop(i)
          /\ \E j, k \in PendingAt(i) :
                /\ popped[j][1] = popped[i][1]
                /\ IsErrorFreeNode(flow_path[k])

(***************************************************************************)
(* C10.  The follow-up hop of a remote-queue hop.                          *)
(***************************************************************************)
RemoteTarget(d) ==
    <<Strip(Get(d, "REMOTE_Q_MGR_NAME", NoValue)),
      Strip(Get(d, "REMOTE_Q_NAME", NoValue)), "queue">>

\* C10 as claimed: the hop (remote manager, remote queue, queue) is enqueued
\* for every value of the two attributes.
C10_AsClaimed ==
    \A i \in DOMAIN spawned :
        QueueHop(i, "MQQT_REMOTE") => spawned[i] = <<RemoteTarget(QueueDefAt(i))>>

\* C10 amended: a remote-queue hop enqueues (remote manager, remote queue,
\* queue) whenever both attributes are non-blank, whether or not a
\* transmission queue or a channel is found; it enqueues nothing when either
\* attribute is blank.
C10_RemoteHop ==
    \A i \in DOMAIN spawned :
        QueueHop(i, "MQQT_REMOTE") =>
            LET t == RemoteTarget(QueueDefAt(i)) IN
            spawned[i] = IF t[1] # "" /\ t[2] # "" THEN <<t>> ELSE <<>>

\* A remote hop with a transmission queue whose channel inquiry failed, and
\* which enqueued its target all the same.
C10_Witness ==
    \E i \in DOMAIN spawned :
        /\ QueueHop(i, "MQQT_REMOTE")
        /\ XmitOf(QueueDefAt(i)) # "" /\ answers[popped[i][1]].ch = MQMIError
        /\ "channel" \notin DOMAIN flow_path[i].details
        /\ spawned[i] = <<RemoteTarget(QueueDefAt(i))>>

(***************************************************************************)
(* C11.  Membership of the pending-hop queue.                              *)
(***************************************************************************)
RECURSIVE Flatten(_)
Flatten(seqs) == IF seqs = <<>> THEN <<>> ELSE Head(seqs) \o Flatten(Tail(seqs))

\* The starting triple, with which hop_queue is seeded.
Seed ==
    <<flow_details.starting_queue_manager, flow_details.object_name,
      flow_details.object_type>>

\* C11 as claimed: the pending-hop queue never holds two hops with the same
\* (manager, object, kind) triple.
C11_AsClaimed ==
    \A i, j \in DOMAIN hop_queue : i # j => hop_queue[i] # hop_queue[j]

\* C11 amended: every discovered hop is enqueued, a hop equal to one already
\* pending included, so the pending-hop queue can hold equal triples; of two
\* equal hops the one popped later yields only a loop-detected entry.
C11_EveryHopEnqueued ==
    /\ popped \o hop_queue = <<Seed>> \o Flatten(spawned)
    /\ \A i, j \in DOMAIN flow_path :
          (i < j /\ popped[i] = popped[j]) => flow_path[j] = LoopNote(popped[j][1])

\* Two equal hops are pending at once, behind a hop that differs from them.
C11_Witness ==
    \E i, j, k \in DOMAIN hop_queue :
        /\ i < j /\ j < k
        /\ hop_queue[j] = hop_queue[k]
        /\ hop_queue[i] # hop_queue[j]

(***************************************************************************)
(* C12.  A hop whose manager is absent from the directory is recorded with *)
(* a "no connection details found" error entry, distinguishable in the     *)
(* flow path from the "failed to connect" entry of a manager that is in    *)
(* the directory but whose connection attempt fails.                       *)
(***************************************************************************)
C12_DirectoryMissDistinct ==
    \A i \in DOMAIN flow_path :
        (FirstNaming(i) /\ popped[i][1] \notin qmgr_details)
            => /\ HasError(flow_path[i])
               /\ flow_path[i] # ConnectError(popped[i][1])

(***************************************************************************)
(* C13.  Unreachable starting manager: when the starting manager is absent *)
(* from the directory, the returned flow path has exactly one entry, that  *)
(* entry is an error entry, no session is ever opened and no hop is ever   *)
(* enqueued.                                                               *)
(***************************************************************************)
C13_UnreachableStart ==
    Seed[1] \notin qmgr_details =>
        /\ sessions = {} /\ qmgr = "None"
        /\ \A m \in Managers : queried[m] = 0
        /\ Flatten(spawned) = <<>>
        /\ popped \o hop_queue = <<Seed>>
        /\ Len(flow_path) <= 1
        /\ pc = "done" => /\ Len(flow_path) = 1
                          /\ HasError(flow_path[1])
                          /\ ~IsNode(flow_path[1])

\* The call returned for a starting manager absent from a non-empty directory.
C13_Witness ==
    /\ pc = "done"
    /\ Seed[1] \notin qmgr_details
    /\ qmgr_details # {}
    /\ connects[Seed[1]] = 1

(***************************************************************************)
(* C14.  Alias resolution: for an alias-queue hop the base name is queried *)
(* first as a queue on the same manager and, only if that finds nothing,   *)
(* as a topic on the same manager.  Found as a queue, the node records     *)
(* base type "queue"; found only as a topic, base type "topic"; in both    *)
(* cases the hop (same manager, base name, resolved kind) is enqueued.     *)
(* Found as neither, no hop is enqueued.                                   *)
(***************************************************************************)
BaseNameAt(i) == Strip(Get(QueueDefAt(i), "BASE_OBJECT_NAME", NoValue))
AliasHop(i) == QueueHop(i, "MQQT_ALIAS") /\ BaseNameAt(i) # ""
Last(seq) == seq[Len(seq)]

C14_AliasResolution ==
    \A i \in DOMAIN spawned :
        AliasHop(i) =>
            LET v == answers[popped[i][1]]
                details == flow_path[i].details
            IN  /\ v.bq # NoQuery
                /\ details.base_object_name = BaseNameAt(i)
                /\ IF BaseDefAt(i) # EmptyDict
                   THEN /\ v.bt = NoQuery
                        /\ details.base_object_type = "queue"
                        /\ spawned[i] # <<>>
                        /\ Last(spawned[i]) = <<popped[i][1], BaseNameAt(i), "queue">>
                   ELSE /\ v.bt # NoQuery
                        /\ IF query_topic_details(v.bt) # EmptyDict
                           THEN /\ details.base_object_type = "topic"
                                /\ spawned[i] = <<<<popped[i][1], BaseNameAt(i), "topic">>>>
                           ELSE /\ "base_object_type" \notin DOMAIN details
                                /\ spawned[i] = <<>>

\* One alias whose base is a queue, and one whose base, not found as a queue
\* (the inquiry failed), is a topic.
C14_Witness ==
    \E i, j \in DOMAIN spawned :
        /\ AliasHop(i) /\ BaseDefAt(i) # EmptyDict
        /\ AliasHop(j) /\ BaseDefAt(j) = EmptyDict
        /\ Get(flow_path[j].details, "base_object_type", "None") = "topic"

(***************************************************************************)
(* C15.  Alias to local queue: an alias-queue hop whose base object is a   *)
(* local queue with a transmission queue set and exactly one channel bound *)
(* to that transmission queue produces a node whose details hold the base  *)
(* object name, base object type "queue", base queue type "Local", and     *)
(* that channel's name, type and connection string.                        *)
(***************************************************************************)
\* Positions, in the channel answer of hop i, of the channels bound to x.
BoundTo(i, x) ==
    LET ch == answers[popped[i][1]].ch IN
    IF ch.rc # "OK" THEN {}
    ELSE {k \in DOMAIN ch.attrs : Strip(ch.attrs[k].XMIT_Q_NAME) = x}

AliasToLocal(i) ==
    /\ AliasHop(i)
    /\ Get(BaseDefAt(i), "Q_TYPE", "None") = "MQQT_LOCAL"
    /\ XmitOf(BaseDefAt(i)) # ""
    /\ Cardinality(BoundTo(i, XmitOf(BaseDefAt(i)))) = 1

C15_AliasToLocal ==
    \A i \in DOMAIN spawned :
        AliasToLocal(i) =>
            LET details == flow_path[i].details
                ch == answers[popped[i][1]].ch.attrs[
                          CHOOSE k \in BoundTo(i, XmitOf(BaseDefAt(i))) : TRUE]
            IN  /\ NodeOf(flow_path[i], popped[i]) /\ ~HasError(flow_path[i])
                /\ details.type = "Alias"
                /\ details.base_object_name = BaseNameAt(i)
                /\ details.base_object_type = "queue"
                /\ details.base_queue_type = "Local"
                /\ details.transmission_queue = XmitOf(BaseDefAt(i))
                /\ details.channel = [name |-> Strip(ch.CHANNEL_NAME),
                                      type |-> ch.CHANNEL_TYPE,
                                      connection_name |-> Strip(ch.CONNECTION_NAME)]

\* The one bound channel is not the first channel the manager lists.
C15_Witness ==
    \E i \in DOMAIN spawned :
        /\ AliasToLocal(i)
        /\ 1 \notin BoundTo(i, XmitOf(BaseDefAt(i)))
        /\ Len(answers[popped[i][1]].ch.attrs) = 2

(***************************************************************************)
(* C16.  The subscriptions of a topic hop and the hops they produce.       *)
(***************************************************************************)
TopicHop(i) ==
    /\ Queried(i) /\ popped[i][3] = "topic"
    /\ query_topic_details(answers[popped[i][1]].t) # EmptyDict

\* The subscriptions of hop i's topic that name a destination object.
WithDestination(i) ==
    SelectSeq(SubsAt(i), LAMBDA sub : Strip(sub.DESTINATION) # "")

C16_Recorded(i) ==
    LET details == flow_path[i].details
        subs == SubsAt(i)
    IN  IF subs = <<>> THEN "subscriptions" \notin DOMAIN details
        ELSE /\ Len(details.subscriptions) = Len(subs)
             /\ \A k \in DOMAIN subs :
                   /\ details.subscriptions[k].name = Strip(subs[k].SUB_NAME)
                   /\ details.subscriptions[k].destination = Strip(subs[k].DESTINATION)

\* C16 as claimed: every subscription returned for the topic name is
\* recorded in the node's details and produces one enqueued hop; the number
\* of hops enqueued equals the number of matching subscriptions.
C16_AsClaimed ==
    \A i \in DOMAIN spawned :
        TopicHop(i) =>
            /\ C16_Recorded(i)
            /\ LET subs == SubsAt(i) IN
               spawned[i] = [k \in DOMAIN subs |-> Destination(subs[k], popped[i][1])]

\* C16 amended: every subscription returned for the topic name is recorded
\* in the node's details, and each one whose destination object is not
\* blank produces one enqueued hop (destination manager, or the current
\* manager if that is blank; destination object; queue), in subscription
\* order; a subscription with a blank destination object produces no hop.
C16_SubscriptionHops ==
    \A i \in DOMAIN spawned :
        TopicHop(i) =>
            /\ C16_Recorded(i)
            /\ LET subs == WithDestination(i) IN
               spawned[i] = [k \in DOMAIN subs |-> Destination(subs[k], popped[i][1])]

\* A topic with a subscription without destination object between two with.
C16_Witness ==
    \E i \in DOMAIN spawned :
        /\ TopicHop(i)
        /\ Len(SubsAt(i)) = 3 /\ Len(spawned[i]) = 2
        /\ Strip(SubsAt(i)[2].DESTINATION) = ""
        /\ spawned[i][2][1] = popped[i][1]

(***************************************************************************)
(* C17.  Hops are processed strictly in the order in which they were       *)
(* enqueued (seed first), and the flow path is in that same order: if hop  *)
(* h1 was enqueued before hop h2, the entry produced by h1 precedes the    *)
(* entry produced by h2.                                                   *)
(***************************************************************************)
\* Entry e is one that hop h produces.
EntryOf(e, h) ==
    \/ e = LoopNote(h[1])
    \/ e = ConnectError(h[1])
    \/ NodeOf(e, h)

\* The hops popped are, in order, the first hops enqueued; entry i of the
\* flow path is the entry of the i-th hop enqueued.
C17_InOrder ==
    LET enqueued == <<Seed>> \o Flatten(spawned) IN
    /\ Len(popped) <= Len(enqueued)
    /\ popped = SubSeq(enqueued, 1, Len(popped))
    /\ hop_queue = SubSeq(enqueued, Len(popped) + 1, Len(enqueued))
    /\ Len(flow_path) = IF pc = "query" THEN Len(popped) - 1 ELSE Len(popped)
    /\ \A i \in DOMAIN flow_path : EntryOf(flow_path[i], enqueued[i])

\* A step that pops takes the oldest pending hop; a step that enqueues puts
\* the new hops behind every pending one.
C17_Step ==
    /\ popped' # popped =>
          /\ hop_queue # <<>>
          /\ popped' = Append(popped, Head(hop_queue))
          /\ hop_queue' = Tail(hop_queue)
    /\ (popped' = popped /\ hop_queue' # hop_queue) =>
          /\ Len(hop_queue') > Len(hop_queue)
          /\ SubSeq(hop_queue', 1, Len(hop_queue)) = hop_queue

C17_FifoOrder == [](C17_InOrder) /\ [][C17_Step]_vars

\* A returned traversal in which a hop enqueued its follow-up behind a hop
\* that was already pending, and both were processed.
C17_Witness ==
    /\ pc = "done"
    /\ \E i, j \in DOMAIN spawned :
          /\ i < j
          /\ Len(spawned[i]) >= 2 /\ spawned[j] # <<>>
          /\ IsNode(flow_path[j + 1])
          /\ popped[Len(popped)] = Last(spawned[j])

(***************************************************************************)
(* C18.  In every reachable state, each flow-path entry that carries an    *)
(* error field carries no resolved details: its details are absent or      *)
(* empty (no type, base object, remote, channel or subscription fields).   *)
(***************************************************************************)
C18_ErrorHasNoDetails ==
    \A i \in DOMAIN flow_path :
        HasError(flow_path[i]) =>
            \/ "details" \notin DOMAIN flow_path[i]
            \/ flow_path[i].details = EmptyDict

\* A flow path with a connect error, a not-found node and a node with
\* resolved details.
C18_Witness ==
    \E i, j, k \in DOMAIN flow_path :
        /\ IsConnectError(flow_path[i])
        /\ IsNotFound(flow_path[j]) /\ flow_path[j].details = EmptyDict
        /\ IsErrorFreeNode(flow_path[k]) /\ flow_path[k].details # EmptyDict

(***************************************************************************)
(* C19.  The flow path is append-only: each loop iteration leaves every    *)
(* entry already in the flow path unchanged and in place, and only adds    *)
(* entries at the end.                                                     *)
(***************************************************************************)
C19_Step ==
    /\ Len(flow_path') >= Len(flow_path)
    /\ SubSeq(flow_path', 1, Len(flow_path)) = flow_path
    /\ flow_details'.starting_queue_manager = flow_details.starting_queue_manager
    /\ flow_details'.object_name = flow_details.object_name
    /\ flow_details'.object_type = flow_details.object_type

C19_AppendOnly == [][C19_Step]_vars

\* A returned flow path of a node, a connect error, a not-found node and a
\* loop-detected entry, each appended behind the ones before.
C19_Witness ==
    /\ pc = "done"
    /\ Len(flow_path) = 4
    /\ IsErrorFreeNode(flow_path[1])
    /\ IsConnectError(flow_path[2])
    /\ IsNotFound(flow_path[3])
    /\ IsLoopNote(flow_path[4])

(***************************************************************************)
(* mq_audit_usage.py: the daily audit of one queue manager.  A run parses  *)
(* the DISPLAY QSTATUS output of runmqsc and upserts one row per queue     *)
(* into queue_audit, keyed by (queue_manager, queue_name, audit_day).      *)
(***************************************************************************)
AuditManager == "QM1"
AuditQueues == {"QA", "QB"}
AuditDays == {1, 2}
None == "None"

\* MQSC attribute -> key of the parsed stats.
StatKey ==
    [LGETDATE |-> "lget_date", LGETTIME |-> "lget_time",
     LPUTDATE |-> "lput_date", LPUTTIME |-> "lput_time"]
StatKeys == {StatKey[a] : a \in DOMAIN StatKey}

\* What runmqsc prints for a queue: per attribute shown, the text between
\* its parentheses.  After a queue manager restart the values are blank.
GetValues ==
    {[LGETDATE |-> Pad(""), LGETTIME |-> Pad("")],
     [LGETDATE |-> Pad("2024-01-01"), LGETTIME |-> Pad("10.00.00")]}
PutValues ==
    {[LPUTDATE |-> Pad(""), LPUTTIME |-> Pad("")],
     [LPUTDATE |-> Pad("2024-01-02"), LPUTTIME |-> Pad("")],
     [LPUTDATE |-> Pad("2024-01-02"), LPUTTIME |-> Pad("11.00.00")]}
QStatus ==
    {g @@ p : g \in GetValues, p \in PutValues}
    \cup {[LPUTDATE |-> Pad("2024-01-02"), LPUTTIME |-> Pad("11.00.00")]}
\* The second queue is idle, restarted, or put to once.
QStatusB ==
    {[a \in DOMAIN StatKey |-> Pad("")],
     [LGETDATE |-> Pad(""), LGETTIME |-> Pad(""),
      LPUTDATE |-> Pad("2024-01-02"), LPUTTIME |-> Pad("11.00.00")]}
Outputs ==
    {<<>>}
    \cup {("QA" :> a) : a \in QStatus}
    \cup {("QA" :> a) @@ ("QB" :> b) : a \in QStatus, b \in QStatusB}

\* queues[current_queue][key] = val if val else None
parse_qstatus_output(output) ==
    [q \in DOMAIN output |->
        [k \in {StatKey[a] : a \in DOMAIN output[q]} |->
            LET a == CHOOSE a \in DOMAIN output[q] : StatKey[a] = k
                val == Strip(output[q][a])
            IN  IF val # "" THEN val ELSE None]]

\* Python's `x or None`.
OrNone(x) == IF x = "" \/ x = None THEN None ELSE x

\* if not any([lget_date, lget_time, lput_date, lput_time])
AllBlank(stats) == \A k \in StatKeys : OrNone(Get(stats, k, None)) = None

\* The queues upsert_to_db leaves out of data.
Skipped(stats) == AllBlank(stats)

DataRow(stats, audit_ts) ==
    [last_get_date |-> OrNone(Get(stats, "lget_date", None)),
     last_get_time |-> OrNone(Get(stats, "lget_time", None)),
     last_put_date |-> OrNone(Get(stats, "lput_date", None)),
     last_put_time |-> OrNone(Get(stats, "lput_time", None)),
     audit_date |-> audit_ts]

\* for qname, stats in queue_stats.items(): ... data.append(...)
BuildData(stats_by_queue, audit_ts) ==
    [q \in {q \in DOMAIN stats_by_queue : ~Skipped(stats_by_queue[q])} |->
        DataRow(stats_by_queue[q], audit_ts)]

\* Mutant: DO UPDATE SET col = EXCLUDED.col.
Coalesce_Overwrite(excluded, existing) == excluded

\* COALESCE(EXCLUDED.col, queue_audit.col)
Coalesce(excluded, existing) == IF excluded # None THEN excluded ELSE existing

\* INSERT ... ON CONFLICT (queue_manager, queue_name, audit_day) DO UPDATE
UpsertRow(table, key, row) ==
    IF key \in DOMAIN table
    THEN [table EXCEPT ![key] =
            [last_get_date |-> Coalesce(row.last_get_date, @.last_get_date),
             last_get_time |-> Coalesce(row.last_get_time, @.last_get_time),
             last_put_date |-> Coalesce(row.last_put_date, @.last_put_date),
             last_put_time |-> Coalesce(row.last_put_time, @.last_put_time),
             audit_date |-> row.audit_date]]
    ELSE (key :> row) @@ table

RowKey(qname, day) == <<AuditManager, qname, day>>

\* execute_values(cur, sql, data): one row per queue of data.
RECURSIVE ExecuteValues(_, _, _)
ExecuteValues(table, rows, day) ==
    IF DOMAIN rows = {} THEN table
    ELSE LET q == CHOOSE q \in DOMAIN rows : TRUE
         IN  ExecuteValues(UpsertRow(table, RowKey(q, day), rows[q]),
                           [r \in DOMAIN rows \ {q} |-> rows[r]], day)

\* No trace_message_flow call runs in the audit job.
TraceOff ==
    /\ qmgr_details = {}
    /\ flow_details = [starting_queue_manager |-> "", object_name |-> "",
                       object_type |-> "", flow_path |-> <<>>]
    /\ hop_queue = <<>>
    /\ visited = {}
    /\ pc = "off"
    /\ cur = NoHop
    /\ qmgr = "None"
    /\ sessions = {}
    /\ answers = <<>>
    /\ connects = <<>>
    /\ queried = <<>>
    /\ popped = <<>>
    /\ spawned = <<>>

AuditInit ==
    /\ TraceOff
    /\ WorkersOff
    /\ DBOff
    /\ ChatOff
    /\ queue_audit = <<>>
    /\ audit_day = 1
    /\ queue_stats = <<>>
    /\ data = <<>>
    /\ audit_pc = "idle"
    /\ committed = FALSE
    /\ future_result = <<>>

\* process_queue_manager: runmqsc answered and its output is parsed.
ParseOutput ==
    /\ audit_pc = "idle"
    /\ \E output \in Outputs : queue_stats' = parse_qstatus_output(output)
    /\ audit_pc' = "parsed"
    /\ committed' = FALSE
    /\ future_result' = <<>>
    /\ UNCHANGED <<queue_audit, audit_day, data>>
    /\ UNCHANGED <<trace_vars, worker_vars, db_vars, chat_vars>>

\* The tuple process_queue_manager returns after upsert_to_db, which
\* returns nothing and raises nothing: (qm_name, len(stats), None).
AfterUpsert(stats) == <<AuditManager, Cardinality(DOMAIN stats), None>>

\* process_queue_manager: run_mqsc_client returned None.
RunmqscFailed ==
    /\ audit_pc = "idle"
    /\ committed' = FALSE
    /\ future_result' = <<AuditManager, 0, "runmqsc failed">>
    /\ UNCHANGED <<queue_audit, audit_day, queue_stats, data, audit_pc>>
    /\ UNCHANGED <<trace_vars, worker_vars, db_vars, chat_vars>>

\* No queue was parsed: `if not queue_stats: return` in upsert_to_db, and
\* process_queue_manager returns "No queues parsed" without calling it.
UpsertNoStats ==
    /\ audit_pc = "parsed"
    /\ DOMAIN queue_stats = {}
    /\ data' = <<>>
    /\ audit_pc' = "idle"
    /\ committed' = FALSE
    /\ future_result' = <<AuditManager, 0, "No queues parsed">>
    /\ UNCHANGED <<queue_audit, audit_day, queue_stats>>
    /\ UNCHANGED <<trace_vars, worker_vars, db_vars, chat_vars>>

\* upsert_to_db: every queue skipped, `if not data: return`.
UpsertAllSkipped ==
    /\ audit_pc = "parsed"
    /\ DOMAIN queue_stats # {}
    /\ DOMAIN BuildData(queue_stats, audit_day) = {}
    /\ data' = BuildData(queue_stats, audit_day)
    /\ audit_pc' = "idle"
    /\ committed' = FALSE
    /\ future_result' = AfterUpsert(queue_stats)
    /\ UNCHANGED <<queue_audit, audit_day, queue_stats>>
    /\ UNCHANGED <<trace_vars, worker_vars, db_vars, chat_vars>>

\* upsert_to_db: the rows are upserted and committed.
UpsertCommitted ==
    /\ audit_pc = "parsed"
    /\ DOMAIN BuildData(queue_stats, audit_day) # {}
    /\ data' = BuildData(queue_stats, audit_day)
    /\ queue_audit' = ExecuteValues(queue_audit, data', audit_day)
    /\ audit_pc' = "idle"
    /\ committed' = TRUE
    /\ future_result' = AfterUpsert(queue_stats)
    /\ UNCHANGED <<audit_day, queue_stats>>
    /\ UNCHANGED <<trace_vars, worker_vars, db_vars, chat_vars>>

\* upsert_to_db: connect or execute raises; nothing is committed.
UpsertFailed ==
    /\ audit_pc = "parsed"
    /\ DOMAIN queue_stats # {}
    /\ data' = BuildData(queue_stats, audit_day)
    /\ audit_pc' = "idle"
    /\ committed' = FALSE
    /\ future_result' = AfterUpsert(queue_stats)
    /\ UNCHANGED <<queue_audit, audit_day, queue_stats>>
    /\ UNCHANGED <<trace_vars, worker_vars, db_vars, chat_vars>>

\* Midnight passes between two runs.
NextDay ==
    /\ audit_pc = "idle"
    /\ audit_day + 1 \in AuditDays
    /\ audit_day' = audit_day + 1
    /\ UNCHANGED <<queue_audit, queue_stats, data, audit_pc, committed, future_result>>
    /\ UNCHANGED <<trace_vars, worker_vars, db_vars, chat_vars>>

AuditNext ==
    \/ ParseOutput
    \/ RunmqscFailed
    \/ UpsertNoStats
    \/ UpsertAllSkipped
    \/ UpsertCommitted
    \/ UpsertFailed
    \/ NextDay

AuditSpec == AuditInit /\ [][AuditNext]_vars

(***************************************************************************)
(* C20.  Restart-safe audit upsert: across any sequence of upsert_to_db    *)
(* runs for the same (queue manager, queue name, audit day) row, a         *)
(* last-get or last-put date/time column that holds a non-null value is    *)
(* never replaced by null, and a queue whose four timestamps are all blank *)
(* in a run is not written at all in that run.                             *)
(***************************************************************************)
TimestampColumns == {"last_get_date", "last_get_time", "last_put_date", "last_put_time"}

C20_NeverNulled ==
    \A key \in DOMAIN queue_audit :
        /\ key \in DOMAIN queue_audit'
        /\ \A col \in TimestampColumns :
              queue_audit[key][col] # None => queue_audit'[key][col] # None

C20_BlankNotWritten ==
    (audit_pc = "parsed" /\ audit_pc' = "idle") =>
        \A q \in DOMAIN queue_stats :
            (\A k \in StatKeys : Get(queue_stats[q], k, None) = None) =>
                /\ q \notin DOMAIN data'
                /\ RowKey(q, audit_day) \in DOMAIN queue_audit'
                      <=> RowKey(q, audit_day) \in DOMAIN queue_audit
                /\ RowKey(q, audit_day) \in DOMAIN queue_audit =>
                      queue_audit'[RowKey(q, audit_day)] = queue_audit[RowKey(q, audit_day)]

C20_RestartSafe == [][C20_NeverNulled /\ C20_BlankNotWritten]_vars

\* A committed run wrote QA with a blank last-get over a row that keeps its
\* last-get values, and left QB, all blank in that run, as an earlier run
\* wrote it.
C20_Witness ==
    /\ audit_pc = "idle"
    /\ "QA" \in DOMAIN data /\ "QB" \notin DOMAIN data /\ "QB" \in DOMAIN queue_stats
    /\ data["QA"].last_get_date = None /\ data["QA"].last_put_time # None
    /\ RowKey("QA", audit_day) \in DOMAIN queue_audit
    /\ queue_audit[RowKey("QA", audit_day)].last_get_date # None
    /\ queue_audit[RowKey("QA", audit_day)].last_put_time # None
    /\ RowKey("QB", audit_day) \in DOMAIN queue_audit
    /\ audit_day = 2

(***************************************************************************)
(* C22.  Any follow-up hop that names the same manager as the hop that     *)
(* enqueued it (the base object of an alias, or a subscription whose       *)
(* destination manager is blank or equal to the current manager) is never  *)
(* queried: its flow-path entry is always a loop-detected entry, so the    *)
(* subscriptions of a topic reached through an alias are never recorded.   *)
(***************************************************************************)
\* The position, in the order of enqueueing, of the k-th hop that hop i
\* enqueued.
PositionOf(i, k) == EnqueuedBefore(i) + k

C22_SameManagerHop ==
    /\ \A i \in DOMAIN spawned :
          \A k \in DOMAIN spawned[i] :
              (spawned[i][k][1] = popped[i][1] /\ PositionOf(i, k) <= Len(flow_path))
                  => /\ popped[PositionOf(i, k)] = spawned[i][k]
                     /\ flow_path[PositionOf(i, k)] = LoopNote(popped[i][1])
    /\ \A j \in DOMAIN flow_path :
          (j > 1 /\ popped[j][3] = "topic") =>
              /\ IsLoopNote(flow_path[j])
              /\ answers[popped[j][1]].subs = NoQuery
    /\ pc = "query" /\ cur[3] = "topic" => Len(popped) = 1

\* The base topic of an alias and the queue of a subscription without
\* destination manager, both ended as loop-detected entries.
C22_Witness ==
    /\ pc = "done"
    /\ \E i, j \in DOMAIN flow_path :
          /\ i > 1 /\ popped[i][3] = "topic" /\ IsLoopNote(flow_path[i])
          /\ j > 1 /\ popped[j][1] = popped[1][1] /\ IsLoopNote(flow_path[j])
          /\ popped[1][3] = "topic" /\ popped[j][3] = "queue"

(***************************************************************************)
(* C23.  When a loop-detected entry is appended.                           *)
(***************************************************************************)
\* C23 as claimed: a loop-detected entry for manager M is appended only if
\* an earlier hop was connected to M and queried there; a repeated hop to a
\* manager whose earlier directory lookup or connection failed is not
\* reported as a loop.
C23_AsClaimed ==
    \A j \in DOMAIN flow_path :
        IsLoopNote(flow_path[j]) => queried[popped[j][1]] = 1

\* C23 amended: a loop-detected entry for manager M is appended exactly
\* when an earlier hop of the same traversal named M, whether that hop was
\* connected and queried or failed on the directory lookup or the
\* connection: a repeated hop to a manager whose earlier connection failed
\* is reported as a loop too.
C23_LoopAfterAnyHop ==
    \A j \in DOMAIN flow_path :
        /\ IsLoopNote(flow_path[j]) <=> \E i \in 1..(j - 1) : popped[i][1] = popped[j][1]
        /\ IsLoopNote(flow_path[j]) => flow_path[j] = LoopNote(popped[j][1])
        /\ \A i \in 1..(j - 1) :
              (popped[i][1] = popped[j][1] /\ IsConnectError(flow_path[i]))
                  => /\ IsLoopNote(flow_path[j])
                     /\ connects[popped[j][1]] = 1

\* One loop-detected entry after a queried manager, one after a manager
\* that is not in the directory.
C23_Witness ==
    \E i, j \in DOMAIN flow_path :
        /\ IsLoopNote(flow_path[i]) /\ queried[popped[i][1]] = 1
        /\ IsLoopNote(flow_path[j]) /\ queried[popped[j][1]] = 0
        /\ popped[j][1] \notin qmgr_details

(***************************************************************************)
(* C24.  Every hop popped from the pending queue appends exactly one entry *)
(* to the flow path: at every loop-iteration boundary the flow-path length *)
(* equals the number of hops popped so far, and at return it equals the    *)
(* total number of hops ever enqueued, the seed included.                  *)
(***************************************************************************)
C24_OneEntryPerHop ==
    /\ pc \in {"loop", "done"} => Len(flow_path) = Len(popped)
    /\ pc = "query" => Len(flow_path) + 1 = Len(popped)
    /\ pc = "done" => Len(flow_path) = 1 + SumLen(spawned)

\* A returned traversal of six hops whose entries include a connection
\* failure and a loop-detected entry.
C24_Witness ==
    /\ pc = "done"
    /\ Len(flow_path) >= 6
    /\ 1 + SumLen(spawned) = Len(flow_path)
    /\ \E i, k \in DOMAIN flow_path :
          IsConnectError(flow_path[i]) /\ IsLoopNote(flow_path[k])

(***************************************************************************)
(* mq_audit_usage.py, main: process_queue_manager runs in the workers of a *)
(* ThreadPoolExecutor, one call per entry of qm_list.  run_mqsc_client     *)
(* passes the connection data to runmqsc through os.environ['MQSERVER'],   *)
(* which belongs to the process and so to all of its threads.  A worker    *)
(* takes three steps on it: the assignment, Popen (the child inherits the  *)
(* environment as it is at that moment) and the pop of the finally clause. *)
(***************************************************************************)
\* qm_list, as loaded from qm_config.json.
qm_list == <<[qm_name |-> "QM1", host |-> "h1", port |-> "1414", channel |-> "CH1"],
             [qm_name |-> "QM2", host |-> "h2", port |-> "1415", channel |-> "CH2"],
             [qm_name |-> "QM3", host |-> "h3", port |-> "1416", channel |-> "CH3"]>>

QMNames == {qm_list[i].qm_name : i \in DOMAIN qm_list}

qm_config(q) == qm_list[CHOOSE i \in DOMAIN qm_list : qm_list[i].qm_name = q]

\* f"{channel}/TCP/{host}({port})"
MQSERVER(channel, host, port) == <<channel, "/TCP/", host, "(", port, ")">>

\* The variable is not in os.environ.
Unset == <<>>

\* The worker has not called Popen, or Popen raised.
NotLaunched == <<"not launched">>

WorkerInit ==
    /\ TraceOff
    /\ AuditOff
    /\ DBOff
    /\ ChatOff
    /\ environ = Unset
    /\ worker_pc = [q \in QMNames |-> "submitted"]
    /\ launched_env = [q \in QMNames |-> NotLaunched]

SetValue(q) ==
    MQSERVER(qm_config(q).channel, qm_config(q).host, qm_config(q).port)

\* A pool thread takes the call and run_mqsc_client assigns the variable.
SetEnviron(q) ==
    /\ worker_pc[q] = "submitted"
    /\ environ' = SetValue(q)
    /\ worker_pc' = [worker_pc EXCEPT ![q] = "set"]
    /\ UNCHANGED launched_env
    /\ UNCHANGED <<trace_vars, audit_vars, db_vars, chat_vars>>

\* subprocess.Popen starts runmqsc with a copy of the environment.
Popen(q) ==
    /\ worker_pc[q] = "set"
    /\ launched_env' = [launched_env EXCEPT ![q] = environ]
    /\ worker_pc' = [worker_pc EXCEPT ![q] = "launched"]
    /\ UNCHANGED environ
    /\ UNCHANGED <<trace_vars, audit_vars, db_vars, chat_vars>>

\* subprocess.Popen raises (no runmqsc on the path): the except clause.
PopenRaises(q) ==
    /\ worker_pc[q] = "set"
    /\ worker_pc' = [worker_pc EXCEPT ![q] = "finally"]
    /\ UNCHANGED <<environ, launched_env>>
    /\ UNCHANGED <<trace_vars, audit_vars, db_vars, chat_vars>>

\* communicate returns or times out; the function is about to leave the try.
Communicate(q) ==
    /\ worker_pc[q] = "launched"
    /\ worker_pc' = [worker_pc EXCEPT ![q] = "finally"]
    /\ UNCHANGED <<environ, launched_env>>
    /\ UNCHANGED <<trace_vars, audit_vars, db_vars, chat_vars>>

\* finally: os.environ.pop('MQSERVER', None)
PopEnviron(q) ==
    /\ worker_pc[q] = "finally"
    /\ environ' = Unset
    /\ worker_pc' = [worker_pc EXCEPT ![q] = "returned"]
    /\ UNCHANGED launched_env
    /\ UNCHANGED <<trace_vars, audit_vars, db_vars, chat_vars>>

WorkerNext ==
    \E q \in QMNames :
        \/ SetEnviron(q)
        \/ Popen(q)
        \/ PopenRaises(q)
        \/ Communicate(q)
        \/ PopEnviron(q)

WorkerSpec == WorkerInit /\ [][WorkerNext]_vars

(***************************************************************************)
(* C21.  With process_queue_manager running concurrently in the workers of *)
(* the thread pool, the runmqsc subprocess of queue manager Q is always    *)
(* launched with MQSERVER built from Q's own channel, host and port: never *)
(* with the value set by another worker, never with the variable removed.  *)
(***************************************************************************)
C21_OwnMQSERVER ==
    \A q \in QMNames :
        launched_env[q] # NotLaunched => launched_env[q] = SetValue(q)

(***************************************************************************)
(* lib/python/PostGresDB.py: class DB, a wrapper of one psycopg2           *)
(* connection and one cursor.  The state is the pair of private attributes *)
(* __conn and __cursor, RowCount, and the connections open on the server.  *)
(* A call is one action, except Execute, whose retry loop takes one action *)
(* per attempt; DBVersion and DBListTables run that loop as well and       *)
(* finish in a step of their own.  What the server does (the connection is *)
(* refused, the query or the commit fails) is an input of the step.        *)
(* The counters executions, commits and rollbacks are those of the call in *)
(* progress: every call starts them at zero.                               *)
(***************************************************************************)
ConnHandles == {"conn1", "conn2"}

\* cursor.rowcount after a successful execute.
RowCounts == {0, 2}

\* An argument whose type is int, and one whose type is not ("3", 3.0, True).
IntArg(n) == [is_int |-> TRUE, value |-> n]
NotIntArg == [is_int |-> FALSE, value |-> 0]

MaxRetriesArgs == {IntArg(0), IntArg(1), IntArg(3), NotIntArg}
RetryWaitArgs == {IntArg(10), NotIntArg}

\* A call of a method, with the state of the object it is called on.
Call(op, max_retries, retry_wait) ==
    [op |-> op, max_retries |-> max_retries, retry_wait |-> retry_wait,
     conn |-> db_conn, cursor |-> db_cursor]

\* def Execute(self, query, max_retries=3, retry_wait=10)
Defaults(op) == Call(op, IntArg(3), IntArg(10))

\* The attributes an instance of DB has; __x inside the class is _DB__x.
Attributes == {"_DB__conn", "_DB__cursor", "_DB__config", "_DB__db_params", "RowCount"}

DBState == [conn |-> db_conn, cursor |-> db_cursor, connections |-> connections]

cursor_close(db) ==
    IF db.conn # None THEN [db EXCEPT !.cursor = None] ELSE db

dbclose_KeepsCursor(db) ==
    IF db.conn # None
    THEN [db EXCEPT !.conn = None, !.connections = db.connections \ {db.conn}]
    ELSE db

dbclose(db) ==
    IF db.conn # None
    THEN [conn |-> None, cursor |-> None, connections |-> db.connections \ {db.conn}]
    ELSE db

grace_close_CursorOnly(db) == cursor_close(db)

grace_close(db) == dbclose(cursor_close(db))

Store(db) ==
    /\ db_conn' = db.conn
    /\ db_cursor' = db.cursor
    /\ connections' = db.connections

\* The call is over: it returned or raised.
Finished(call, result, ex, co, ro) ==
    /\ db_call' = call
    /\ db_result' = result
    /\ db_pc' = "idle"
    /\ attempts_left' = 0
    /\ executions' = ex
    /\ commits' = co
    /\ rollbacks' = ro

DBInit ==
    /\ TraceOff
    /\ AuditOff
    /\ WorkersOff
    /\ ChatOff
    /\ db_conn = None
    /\ db_cursor = None
    /\ RowCount = <<>>
    /\ connections = {}
    /\ db_pc = "idle"
    /\ db_call = Defaults("__init__")
    /\ db_result = "returned"
    /\ attempts_left = 0
    /\ executions = 0
    /\ commits = 0
    /\ rollbacks = 0

\* psycopg2.connect(**self.__db_params) answers with a new connection.
NewConnection == CHOOSE c \in ConnHandles \ connections : TRUE

AlreadyConnected_Never == FALSE

AlreadyConnected == db_conn # None

Connect ==
    /\ db_pc = "idle"
    /\ IF AlreadyConnected
       THEN /\ Finished(Defaults("Connect"), "raised", 0, 0, 0)
            /\ UNCHANGED <<db_conn, db_cursor, connections>>
       ELSE \/ /\ ConnHandles \ connections # {}
               /\ db_conn' = NewConnection
               /\ connections' = connections \cup {NewConnection}
               /\ Finished(Defaults("Connect"), "returned", 0, 0, 0)
               /\ UNCHANGED db_cursor
            \/ /\ Finished(Defaults("Connect"), "raised", 0, 0, 0)
               /\ UNCHANGED <<db_conn, db_cursor, connections>>
    /\ UNCHANGED RowCount
    /\ UNCHANGED <<trace_vars, audit_vars, worker_vars, chat_vars>>

Cursor ==
    /\ db_pc = "idle"
    /\ IF db_conn = None
       THEN /\ Finished(Defaults("Cursor"), "raised", 0, 0, 0)
            /\ UNCHANGED db_cursor
       ELSE /\ db_cursor' = "cursor"
            /\ Finished(Defaults("Cursor"), "returned", 0, 0, 0)
    /\ UNCHANGED <<db_conn, connections, RowCount>>
    /\ UNCHANGED <<trace_vars, audit_vars, worker_vars, chat_vars>>

\* Execute up to the loop, called on the state db: the four checks, then
\* range(max_retries).
ExecuteFrom(db, call) ==
    IF db.conn = None
    THEN /\ Store(db)
         /\ Finished(call, "raised", 0, 0, 0)
    ELSE IF db.cursor = None
    THEN /\ Store(dbclose(db))
         /\ Finished(call, "raised", 0, 0, 0)
    ELSE IF ~call.max_retries.is_int
    THEN /\ Store(grace_close(db))
         /\ Finished(call, "raised", 0, 0, 0)
    ELSE IF ~call.retry_wait.is_int
    THEN /\ Store(grace_close(db))
         /\ Finished(call, "raised", 0, 0, 0)
    ELSE /\ Store(db)
         /\ db_call' = call
         /\ db_result' = "running"
         /\ db_pc' = "attempt"
         /\ attempts_left' = call.max_retries.value
         /\ executions' = 0
         /\ commits' = 0
         /\ rollbacks' = 0

Execute ==
    /\ db_pc = "idle"
    /\ \E max_retries \in MaxRetriesArgs, retry_wait \in RetryWaitArgs :
          ExecuteFrom(DBState, Call("Execute", max_retries, retry_wait))
    /\ UNCHANGED RowCount
    /\ UNCHANGED <<trace_vars, audit_vars, worker_vars, chat_vars>>

\* Execute leaves its loop: the caller goes on, or the exception goes up.
AfterExecute(result) ==
    /\ attempts_left' = 0
    /\ IF db_call.op = "Execute" \/ result = "raised"
       THEN db_pc' = "idle" /\ db_result' = result
       ELSE db_pc' = "fetch" /\ db_result' = "running"

\* What the except clause does on its second print: e has no attribute
\* pgcoe.
ExceptClause ==
    IF "pgcoe" \in {"pgcode", "pgerror", "cursor", "diag", "args"}
    THEN "rollback"
    ELSE "AttributeError"

AfterCommit_Continue == "continue"

AfterCommit == "return"

\* One iteration of the for loop, the query succeeding.
AttemptSucceeds ==
    /\ db_pc = "attempt"
    /\ attempts_left > 0
    /\ \E rowcount \in RowCounts : RowCount' = <<rowcount>>
    /\ executions' = executions + 1
    /\ commits' = commits + 1
    /\ \/ \* conn.commit() returns
          IF AfterCommit = "return"
          THEN AfterExecute("returned")
          ELSE /\ attempts_left' = attempts_left - 1
               /\ UNCHANGED <<db_pc, db_result>>
       \/ \* conn.commit() raises
          AfterExecute("raised")
    /\ UNCHANGED <<db_conn, db_cursor, connections, db_call, rollbacks>>
    /\ UNCHANGED <<trace_vars, audit_vars, worker_vars, chat_vars>>

\* One iteration of the for loop, cursor.execute raising psycopg2.Error.
AttemptFails ==
    /\ db_pc = "attempt"
    /\ attempts_left > 0
    /\ RowCount' = <<0>>
    /\ executions' = executions + 1
    /\ IF ExceptClause = "AttributeError"
       THEN /\ AfterExecute("raised")
            /\ UNCHANGED rollbacks
       ELSE /\ rollbacks' = rollbacks + 1
            /\ attempts_left' = attempts_left - 1
            /\ UNCHANGED <<db_pc, db_result>>
    /\ UNCHANGED <<db_conn, db_cursor, connections, db_call, commits>>
    /\ UNCHANGED <<trace_vars, audit_vars, worker_vars, chat_vars>>

\* range(max_retries) is used up: the final print, and Execute returns.
AttemptsExhausted ==
    /\ db_pc = "attempt"
    /\ attempts_left = 0
    /\ AfterExecute("returned")
    /\ UNCHANGED <<db_conn, db_cursor, connections, RowCount, db_call,
                   executions, commits, rollbacks>>
    /\ UNCHANGED <<trace_vars, audit_vars, worker_vars, chat_vars>>

Commit ==
    /\ db_pc = "idle"
    /\ IF db_conn # None /\ db_cursor # None
       THEN \E result \in {"returned", "raised"} :
               Finished(Defaults("Commit"), result, 0, 1, 0)
       ELSE Finished(Defaults("Commit"), "raised", 0, 0, 0)
    /\ UNCHANGED <<db_conn, db_cursor, connections, RowCount>>
    /\ UNCHANGED <<trace_vars, audit_vars, worker_vars, chat_vars>>

Rollback ==
    /\ db_pc = "idle"
    /\ IF db_conn # None /\ db_cursor # None
       THEN \E result \in {"returned", "raised"} :
               Finished(Defaults("Rollback"), result, 0, 0, 1)
       ELSE Finished(Defaults("Rollback"), "raised", 0, 0, 0)
    /\ UNCHANGED <<db_conn, db_cursor, connections, RowCount>>
    /\ UNCHANGED <<trace_vars, audit_vars, worker_vars, chat_vars>>

CursorClose ==
    /\ db_pc = "idle"
    /\ Store(cursor_close(DBState))
    /\ Finished(Defaults("cursor_close"), "returned", 0, 0, 0)
    /\ UNCHANGED RowCount
    /\ UNCHANGED <<trace_vars, audit_vars, worker_vars, chat_vars>>

DBClose ==
    /\ db_pc = "idle"
    /\ Store(dbclose(DBState))
    /\ Finished(Defaults("dbclose"), "returned", 0, 0, 0)
    /\ UNCHANGED RowCount
    /\ UNCHANGED <<trace_vars, audit_vars, worker_vars, chat_vars>>

\* The head of DBVersion and of DBListTables: connect and open a cursor if
\* there is no connection, else open a cursor if the attribute the elif
\* reads is None, then Execute with the default arguments.
Acquire(op, attribute) ==
    IF db_conn = None
    THEN \/ /\ ConnHandles \ connections # {}
            /\ ExecuteFrom([conn |-> NewConnection, cursor |-> "cursor",
                            connections |-> connections \cup {NewConnection}],
                           Defaults(op))
         \/ /\ Store(DBState)
            /\ Finished(Defaults(op), "raised", 0, 0, 0)
    ELSE IF attribute \notin Attributes
    THEN /\ Store(DBState)
         /\ Finished(Defaults(op), "raised", 0, 0, 0)
    ELSE IF db_cursor = None
    THEN ExecuteFrom([DBState EXCEPT !.cursor = "cursor"], Defaults(op))
    ELSE ExecuteFrom(DBState, Defaults(op))

DBVersion ==
    /\ db_pc = "idle"
    /\ Acquire("DBVersion", "_DB__cursor")
    /\ UNCHANGED RowCount
    /\ UNCHANGED <<trace_vars, audit_vars, worker_vars, chat_vars>>

DBListTables ==
    /\ db_pc = "idle"
    /\ Acquire("DBListTables", "_cursor")
    /\ UNCHANGED RowCount
    /\ UNCHANGED <<trace_vars, audit_vars, worker_vars, chat_vars>>

\* The tail of DBVersion and of DBListTables: fetchall, cursor_close,
\* dbclose, return.
FetchAndClose ==
    /\ db_pc = "fetch"
    /\ Store(dbclose(cursor_close(DBState)))
    /\ db_pc' = "idle"
    /\ db_result' = "returned"
    /\ UNCHANGED <<RowCount, db_call, attempts_left, executions, commits, rollbacks>>
    /\ UNCHANGED <<trace_vars, audit_vars, worker_vars, chat_vars>>

DBNext ==
    \/ Connect
    \/ Cursor
    \/ Execute
    \/ AttemptSucceeds
    \/ AttemptFails
    \/ AttemptsExhausted
    \/ Commit
    \/ Rollback
    \/ CursorClose
    \/ DBClose
    \/ DBVersion
    \/ DBListTables
    \/ FetchAndClose

DBSpec == DBInit /\ [][DBNext]_vars

(***************************************************************************)
(* C25.  DB.Execute: when an attempt fails with a database error, the      *)
(* transaction is rolled back and the query is attempted again, until an   *)
(* attempt succeeds or max_retries attempts have been made; after          *)
(* max_retries failed attempts Execute returns normally, without           *)
(* committing and without raising.                                         *)
(***************************************************************************)
\* A step in which cursor.execute raised psycopg2.Error.
FailedAttempt ==
    /\ db_pc = "attempt"
    /\ executions' = executions + 1
    /\ commits' = commits

C25_RollbackAndRetry ==
    [][FailedAttempt =>
          /\ rollbacks' = rollbacks + 1
          /\ db_result' # "raised"
          /\ db_pc' = "attempt"
          /\ attempts_left' = attempts_left - 1]_vars

(***************************************************************************)
(* C26.  DB.Execute: within one call the query is executed at most         *)
(* max_retries times and committed at most once; the first successful      *)
(* attempt commits, sets RowCount to the cursor's row count and returns    *)
(* with no further attempt.                                                *)
(***************************************************************************)
RunsTheLoop == db_call.op \in {"Execute", "DBVersion", "DBListTables"}

C26_Bounded ==
    RunsTheLoop =>
        /\ commits <= 1
        /\ executions <= (IF db_call.max_retries.is_int
                          THEN db_call.max_retries.value ELSE 0)
        /\ commits = 1 => db_pc # "attempt"

\* A step in which cursor.execute returned: the else clause ran.
SuccessfulAttempt ==
    /\ db_pc = "attempt"
    /\ executions' = executions + 1
    /\ commits' # commits

C26_FirstSuccessEnds ==
    SuccessfulAttempt =>
        /\ commits = 0 /\ commits' = 1
        /\ RowCount' \in {<<r>> : r \in RowCounts}
        /\ db_pc' # "attempt"
        /\ attempts_left' = 0
        /\ db_call'.op = "Execute" => db_result' \in {"returned", "raised"}

C26_AtMostOnce == []C26_Bounded /\ [][C26_FirstSuccessEnds]_vars

\* Execute(query, max_retries=3) returned after one execution and one
\* commit, with two iterations of the loop never run.
C26_Witness ==
    /\ db_call.op = "Execute"
    /\ db_call.max_retries = IntArg(3)
    /\ db_result = "returned"
    /\ executions = 1
    /\ commits = 1
    /\ RowCount = <<2>>

(***************************************************************************)
(* C27.  In every state reachable through any sequence of DB operations    *)
(* (Connect, Cursor, Execute, Commit, Rollback, cursor_close, dbclose,     *)
(* DBVersion, DBListTables, calls that raise included), a cursor that is   *)
(* not None implies a connection that is not None.                         *)
(***************************************************************************)
C27_CursorNeedsConnection == db_cursor # None => db_conn # None

\* Execute raised on an object that had a connection and a cursor: both are
\* gone.
C27_Witness ==
    /\ db_call.op = "Execute"
    /\ db_call.conn # None
    /\ db_call.cursor # None
    /\ db_result = "raised"
    /\ db_conn = None
    /\ db_cursor = None

(***************************************************************************)
(* C28.  DB.Connect called while a connection is held raises and leaves    *)
(* connection and cursor unchanged, so a DB object never holds more than   *)
(* one open connection and never overwrites an open connection without     *)
(* closing it; DB.Cursor, DB.Execute, DB.Commit and DB.Rollback called     *)
(* with no connection raise without touching the database.                 *)
(***************************************************************************)
C28_ConnectHeld ==
    (db_pc = "idle" /\ db_call'.op = "Connect" /\ db_conn # None) =>
        /\ db_result' = "raised"
        /\ UNCHANGED <<db_conn, db_cursor, connections>>

C28_OneConnection ==
    /\ Cardinality(connections) <= 1
    /\ db_conn # None => connections = {db_conn}
    /\ db_conn = None => connections = {}

C28_NeverOverwritten ==
    (db_conn # None /\ db_conn' # db_conn) => db_conn \notin connections'

C28_NoConnection ==
    (/\ db_pc = "idle"
     /\ db_call'.op \in {"Cursor", "Execute", "Commit", "Rollback"}
     /\ db_conn = None) =>
        /\ db_result' = "raised"
        /\ db_pc' = "idle"
        /\ executions' = 0 /\ commits' = 0 /\ rollbacks' = 0
        /\ UNCHANGED <<db_conn, db_cursor, connections>>

C28_Guards ==
    /\ []C28_OneConnection
    /\ [][C28_ConnectHeld /\ C28_NeverOverwritten /\ C28_NoConnection]_vars

\* Connect raised on an object that holds a connection and a cursor.
C28_Witness ==
    /\ db_call.op = "Connect"
    /\ db_call.conn # None
    /\ db_result = "raised"
    /\ db_conn = db_call.conn
    /\ db_cursor # None
    /\ connections = {db_conn}

(***************************************************************************)
(* C29.  DB.Execute called on a connected DB with no cursor, or with a     *)
(* non-integer max_retries or retry_wait, raises without executing the     *)
(* query and leaves the DB object fully closed: connection and cursor are  *)
(* None and the underlying connection has been closed.                     *)
(***************************************************************************)
C29_Step ==
    (/\ db_pc = "idle"
     /\ db_call'.op = "Execute"
     /\ db_conn # None
     /\ \/ db_cursor = None
        \/ ~db_call'.max_retries.is_int
        \/ ~db_call'.retry_wait.is_int) =>
        /\ db_result' = "raised"
        /\ db_pc' = "idle"
        /\ executions' = 0
        /\ db_conn' = None
        /\ db_cursor' = None
        /\ db_conn \notin connections'

C29_ClosedOnBadCall == [][C29_Step]_vars

\* Execute raised for a retry_wait that is not an int, on an object that
\* had a connection and a cursor.
C29_Witness ==
    /\ db_call.op = "Execute"
    /\ db_call.conn # None
    /\ db_call.cursor # None
    /\ db_call.max_retries.is_int
    /\ ~db_call.retry_wait.is_int
    /\ db_result = "raised"
    /\ connections = {}

(***************************************************************************)
(* C30.  DB.DBVersion and DB.DBListTables succeed from each of the three   *)
(* connection states (no connection; connection without cursor;            *)
(* connection with cursor), acquiring whatever is missing, and on return   *)
(* always leave the DB object disconnected.                                *)
(***************************************************************************)
\* With a connection held the head of the call needs nothing from the
\* server: it reaches the query with a connection and a cursor.
C30_Head ==
    (/\ db_pc = "idle"
     /\ db_call'.op \in {"DBVersion", "DBListTables"}
     /\ db_conn # None) =>
        /\ db_pc' = "attempt"
        /\ db_conn' = db_conn
        /\ db_cursor' # None

C30_Disconnected ==
    (db_call.op \in {"DBVersion", "DBListTables"} /\ db_result = "returned") =>
        /\ db_conn = None
        /\ db_cursor = None
        /\ connections = {}

C30_ThreeStates == []C30_Disconnected /\ [][C30_Head]_vars

(***************************************************************************)
(* C31.  process_queue_manager returns a None error (which main reports as *)
(* Success with a queue count) only if the queue manager's parsed          *)
(* statistics were actually committed to the queue_audit table; when the   *)
(* database write fails or every queue is skipped, a non-None error is     *)
(* returned.                                                               *)
(***************************************************************************)
C31_SuccessMeansCommitted ==
    (Len(future_result) = 3 /\ future_result[3] = None) =>
        /\ committed
        /\ DOMAIN data # {}

(***************************************************************************)
(* Chatbot_Frontend.py: the chainlit handlers of one chat session.  The    *)
(* state is cl.user_session (the JWT token, its recorded expiry, the bound *)
(* LLM, the last activity) and the clock.  An event is handled by one      *)
(* action, start() or main() as a whole; what the user types in the login  *)
(* form, what the login endpoint, the LLM and the tools answer are inputs  *)
(* of the step.  Time is counted in minutes.                               *)
(***************************************************************************)
\* The last minute of the clock.
MaxTime == 4

\* TOKEN_EXPIRY_MINUTES, read from the environment at each login.
ExpiryMinutes == {1, 2}

\* What the login form and the /login endpoint give: no answer in 300 s, a
\* missing field, a refused login, a token, or a token followed by a
\* TOKEN_EXPIRY_MINUTES that int() cannot read.
LoginInputs == {"timeout", "missing_field", "login_failed", "login_ok", "bad_expiry"}

\* What one tool call ends with: a result, HTTP 401, another failure.
ToolResults == {"ok", "401", "error"}

\* response.tool_calls of the LLM's answer: up to two calls.
ToolCalls ==
    {<<>>} \cup {<<a>> : a \in ToolResults} \cup {<<a, b>> : a, b \in ToolResults}

\* The names the module defines at top level, with those it imports.
Globals ==
    {"cl", "time", "datetime", "timedelta", "requests", "load_dotenv", "os",
     "ChatOllama", "ConversationBufferWindowMemory", "tools", "FASTAPI_URL",
     "LOGIN_URL", "LAST_ACTIVITY", "TOKEN_KEY", "TOKEN_EXPIRES_AT",
     "original_post", "authenticated_post", "login", "start", "setup_bot",
     "check_token_valid", "main"}

\* cl.user_session after clear(): no key is set.
EmptySession ==
    [jwt_token |-> None, token_expires_at |-> <<>>, llm |-> FALSE, last_activity |-> <<>>]

setup_bot(session, t) == [session EXCEPT !.llm = TRUE, !.last_activity = <<t>>]

\* start(): the session it leaves and the messages it sends.
start(session, input, expires_in, t) ==
    IF session.jwt_token # None
    THEN [session |-> setup_bot(session, t),
          sent |-> <<"Session active", "MQ-Genie Secure is ready!">>]
    ELSE IF input = "timeout"
    THEN [session |-> session,
          sent |-> <<"MQ-Genie requires authentication", "Timeout. Goodbye.">>]
    ELSE IF input = "missing_field"
    THEN [session |-> session,
          sent |-> <<"MQ-Genie requires authentication", "Both fields required.">>]
    ELSE IF input = "login_failed"
    THEN [session |-> session,
          sent |-> <<"MQ-Genie requires authentication", "Authenticating...",
                     "Login failed">>]
    ELSE IF input = "bad_expiry"
    THEN [session |-> [session EXCEPT !.jwt_token = "jwt"],
          sent |-> <<"MQ-Genie requires authentication", "Authenticating...",
                     "Login failed">>]
    ELSE [session |-> setup_bot([session EXCEPT !.jwt_token = "jwt",
                                                !.token_expires_at = <<t + expires_in>>], t),
          sent |-> <<"MQ-Genie requires authentication", "Authenticating...",
                     "Login successful!", "MQ-Genie Secure is ready!">>]

Expired_Never(session, t) == FALSE

\* check_token_valid: expires_at and datetime.now() > expires_at
Expired(session, t) ==
    /\ session.token_expires_at # <<>>
    /\ t > session.token_expires_at[1]

\* The tool loop of main: each call runs its tool; on HTTP 401 the token is
\* set to None and start() runs; the loop goes on with the next call.
RECURSIVE RunTools(_, _, _, _, _)
RunTools(run, calls, input, expires_in, t) ==
    IF calls = <<>> THEN run
    ELSE LET held == run.session.jwt_token # None
             relogin == start([run.session EXCEPT !.jwt_token = None], input, expires_in, t)
             next == IF Head(calls) = "401"
                     THEN [session |-> relogin.session,
                           sent |-> run.sent \o <<"Token expired. Re-logging in...">> \o relogin.sent,
                           tools |-> Append(run.tools, held)]
                     ELSE [session |-> run.session,
                           sent |-> Append(run.sent, IF Head(calls) = "ok" THEN "result"
                                                     ELSE "Tool failed"),
                           tools |-> Append(run.tools, held)]
         IN  RunTools(next, Tail(calls), input, expires_in, t)

\* main(message): the session it leaves, the messages it sends, whether the
\* LLM was invoked and with which token state each tool ran.
main(session, calls, input, expires_in, t) ==
    IF session.jwt_token = None
    THEN [session |-> session, sent |-> <<"Please log in first.">>,
          llm |-> FALSE, tools |-> <<>>, raised |-> FALSE]
    ELSE IF Expired(session, t)
    THEN LET again == start(EmptySession, input, expires_in, t)
         IN  [session |-> again.session,
              sent |-> <<"Session expired. Please log in again.">> \o again.sent,
              llm |-> FALSE, tools |-> <<>>, raised |-> FALSE]
    ELSE IF "calculated_now" \notin Globals
    THEN \* line 140: NameError, before anything is set or sent
         [session |-> session, sent |-> <<>>,
          llm |-> FALSE, tools |-> <<>>, raised |-> TRUE]
    ELSE IF ~session.llm
    THEN \* no "memory" in the session: AttributeError at line 149
         [session |-> [session EXCEPT !.last_activity = <<t>>], sent |-> <<>>,
          llm |-> FALSE, tools |-> <<>>, raised |-> TRUE]
    ELSE LET run == RunTools([session |-> [session EXCEPT !.last_activity = <<t>>],
                              sent |-> <<>>, tools |-> <<>>],
                             calls, input, expires_in, t)
         IN  [session |-> run.session,
              sent |-> IF calls = <<>> THEN <<"response.content">> ELSE run.sent,
              llm |-> TRUE, tools |-> run.tools, raised |-> FALSE]

Event(kind, input) == [kind |-> kind, input |-> input, session |-> user_session, now |-> now]

ChatInit ==
    /\ TraceOff
    /\ AuditOff
    /\ WorkersOff
    /\ DBOff
    /\ user_session = EmptySession
    /\ now = 0
    /\ chat_event = Event("connect", "none")
    /\ sent = <<>>
    /\ invoked = [llm |-> FALSE, tools |-> <<>>, raised |-> FALSE]

\* on_chat_start: a new chat, or the browser is refreshed.
ChatStart ==
    /\ \E input \in LoginInputs, expires_in \in ExpiryMinutes :
          LET r == start(user_session, input, expires_in, now)
          IN  /\ user_session' = r.session
              /\ sent' = r.sent
              /\ chat_event' = Event("start", input)
    /\ invoked' = [llm |-> FALSE, tools |-> <<>>, raised |-> FALSE]
    /\ UNCHANGED now
    /\ UNCHANGED <<trace_vars, audit_vars, worker_vars, db_vars>>

\* on_message
ChatMessage ==
    /\ \E calls \in ToolCalls, input \in LoginInputs, expires_in \in ExpiryMinutes :
          LET r == main(user_session, calls, input, expires_in, now)
          IN  /\ user_session' = r.session
              /\ sent' = r.sent
              /\ invoked' = [llm |-> r.llm, tools |-> r.tools, raised |-> r.raised]
              /\ chat_event' = Event("message", input)
    /\ UNCHANGED now
    /\ UNCHANGED <<trace_vars, audit_vars, worker_vars, db_vars>>

\* A minute passes.
Tick ==
    /\ now < MaxTime
    /\ now' = now + 1
    /\ UNCHANGED <<user_session, chat_event, sent, invoked>>
    /\ UNCHANGED <<trace_vars, audit_vars, worker_vars, db_vars>>

ChatNext ==
    \/ ChatStart
    \/ ChatMessage
    \/ Tick

ChatSpec == ChatInit /\ [][ChatNext]_vars

(***************************************************************************)
(* C32.  Across any sequence of chat-start, login, message, token-expiry   *)
(* and 401 events, the LLM is invoked and tools are executed for a message *)
(* only if the session then holds a token whose recorded expiry time has   *)
(* not passed; a message on a session with no token or an expired token is *)
(* dropped with a login/expired notice.                                    *)
(***************************************************************************)
\* The session the last event met held a token whose recorded expiry had
\* not passed.
C32_TokenValid ==
    /\ chat_event.session.jwt_token # None
    /\ chat_event.session.token_expires_at # <<>>
    /\ chat_event.now <= chat_event.session.token_expires_at[1]

C32_TokenExpired ==
    /\ chat_event.session.jwt_token # None
    /\ chat_event.session.token_expires_at # <<>>
    /\ chat_event.now > chat_event.session.token_expires_at[1]

C32_Notice ==
    IF chat_event.session.jwt_token = None
    THEN "Please log in first."
    ELSE "Session expired. Please log in again."

====
